---- MODULE Spec2Model ----
(***************************************************************************)
(* Change-detection and notification pipeline of the StubHub last-minute   *)
(* concert deals scraper (Playwright variant with Slack notification).     *)
(*                                                                         *)
(* Strings that the program parses (price texts) are tuples of            *)
(* one-character strings, so that replace(/[$,]/g, '') and parseInt are    *)
(* computed character by character as JavaScript computes them.            *)
(* The fields title, venue, date and time of a ConcertDeal are copied      *)
(* verbatim by the diff and the state store and only interpolated into the *)
(* Slack blocks; a deal is modelled by its url, price and prices fields,   *)
(* and the length of its texts is given per url (ListingTextChars).        *)
(***************************************************************************)
EXTENDS Integers, Sequences, FiniteSets, TLC

VARIABLES
    \* -- the diff taken alone (specification SpecCompare)
    cmpCurrent,      \* compareWithPreviousState: argument currentDeals
    cmpPrevious,     \* compareWithPreviousState: argument previousState
    cmpResult,       \* compareWithPreviousState: returned DealWithStatus[]
    cmpPc,           \* "input" before the call, "returned" after it
    \* -- getPricesForEvent taken alone (specification SpecPrices)
    pricesPage,      \* getPricesForEvent: what the event page gives
    pricesReturned,  \* getPricesForEvent: returned string[]
    pricesPc,        \* "input" before the call, "returned" after it
    \* -- the price-range step taken alone (specification SpecPriceRange)
    rangeDebug,      \* DEBUG
    rangeMin,        \* MIN_PRICE: a number or null
    rangeMax,        \* MAX_PRICE: a number or null
    rangeDeals,      \* deals before the step
    rangeKept,       \* deals after the step
    rangePc,         \* "input" before the step, "returned" after it
    \* -- the date-window check taken alone (specification SpecDateWindow)
    dateDebug,       \* DEBUG
    dateNow,         \* new Date() when the events are filtered
    dateText,        \* event.date
    includeEvent,    \* includeEvent after the check
    datePc,          \* "input" before the check, "returned" after it
    \* -- the keyword and pattern filters taken alone (SpecExclusion)
    exclDebug,       \* DEBUG
    exclKeywords,    \* EXCLUDED_KEYWORDS
    exclPatterns,    \* EXCLUDED_EVENTS
    exclTitles,      \* event.title of the events of the filter loop
    exclKept,        \* titles of the events the two filters keep
    exclResult,      \* "returned", or "threw" when the loop is left by an error
    exclPc,          \* "input" before the loop, "done" after it
    \* -- the files on disk
    stateFile,       \* content of state.json
    \* -- one process invocation of main() (specification Spec)
    ONE_TIME_RUN,    \* process.env.ONE_TIME_RUN === 'true'
    ENABLE_SLACK,    \* !!SLACK_WEBHOOK_URL
    DEBUG,           \* process.env.DEBUG === 'true'
    pc,              \* position of main()
    exitCode,        \* exit code of the process once pc = "exited"
    fetchResult,     \* how fetchLastMinuteConcertDeals ended
    deals,           \* main: deals
    previousState,   \* main: previousState
    dealsWithStatus, \* main: dealsWithStatus
    noteworthyDeals, \* main: noteworthyDeals
    slackResult,     \* how postToSlack ended
    webhookRequests, \* bodies POSTed to the webhook by this run, in order
    outputJson,      \* what this run wrote to output.json, if anything
    stateWrite,      \* outcome of this run's writeFileSync(STATE_FILE_PATH)
    stateFileAtStart,\* content of state.json when this run started
    eventLinks,      \* fetchLastMinuteConcertDeals: eventLinks of this run
    trace            \* calls made by main() in this run, in order

cmpVars == <<cmpCurrent, cmpPrevious, cmpResult, cmpPc>>

pricesVars == <<pricesPage, pricesReturned, pricesPc>>

rangeVars == <<rangeDebug, rangeMin, rangeMax, rangeDeals, rangeKept, rangePc>>

\* The variables of the functions taken alone; main() leaves them alone.
dateVars == <<dateDebug, dateNow, dateText, includeEvent, datePc>>

exclVars == <<exclDebug, exclKeywords, exclPatterns, exclTitles, exclKept,
              exclResult, exclPc>>

fnVars == <<cmpVars, pricesVars, rangeVars, dateVars, exclVars>>

runVars == <<ONE_TIME_RUN, ENABLE_SLACK, DEBUG, pc, exitCode, fetchResult,
             deals, previousState, dealsWithStatus, noteworthyDeals,
             slackResult, webhookRequests, outputJson, stateWrite,
             stateFileAtStart, eventLinks, trace>>

vars == <<fnVars, stateFile, runVars>>

----------------------------------------------------------------------------
(* Bounds *)

\* Longest currentDeals / previousState.deals list given to the diff.
MaxDeals == 2

\* Most event cards found on the search page in one scrape.
MaxEvents == 2

\* Most price texts matched in the body of one event page.
MaxMatches == 4

\* Longest list of event titles drawn for the keyword and pattern filters.
MaxTitles == 2

----------------------------------------------------------------------------
(* Price texts *)

P40 == <<"$", "4", "0">>
P50 == <<"$", "5", "0">>
P55 == <<"$", "5", "5">>
P60 == <<"$", "6", "0">>
P0 == <<"$", "0">>
P5 == <<"$", "5">>
P10 == <<"$", "1", "0">>
P500 == <<"$", "5", "0", "0">>
P1000 == <<"$", "1", ",", "0", "0", "0">>
P10000 == <<"$", "1", "0", ",", "0", "0", "0">>
PComma == <<"$", ",">>
PUnparseable == <<"N", "/", "A">>
PriceNotAvailable == <<"P", "r", "i", "c", "e", " ", "n", "o", "t", " ", "a", "v", "a", "i", "l", "a", "b", "l", "e">>

Digits == {"0", "1", "2", "3", "4", "5", "6", "7", "8", "9"}

DigitVal(c) ==
    CASE c = "0" -> 0 [] c = "1" -> 1 [] c = "2" -> 2 [] c = "3" -> 3
      [] c = "4" -> 4 [] c = "5" -> 5 [] c = "6" -> 6 [] c = "7" -> 7
      [] c = "8" -> 8 [] c = "9" -> 9

\* A JavaScript number as parseInt returns it: an integer or NaN.
NaN == [nan |-> TRUE, val |-> 0]
Num(v) == [nan |-> FALSE, val |-> v]

\* JavaScript comparisons on numbers: every comparison with NaN is false.
StrictEq(a, b) == ~a.nan /\ ~b.nan /\ a.val = b.val
LessThan(a, b) == ~a.nan /\ ~b.nan /\ a.val < b.val
GreaterThan(a, b) == ~a.nan /\ ~b.nan /\ a.val > b.val

\* s.replace(/[$,]/g, '')
StripDollarComma(s) == SelectSeq(s, LAMBDA c : c \notin {"$", ","})

RECURSIVE DropLeadingSpace(_)
DropLeadingSpace(s) ==
    IF s # <<>> /\ Head(s) = " " THEN DropLeadingSpace(Tail(s)) ELSE s

RECURSIVE DigitPrefixValue(_, _)
DigitPrefixValue(s, acc) ==
    IF s # <<>> /\ Head(s) \in Digits
    THEN DigitPrefixValue(Tail(s), 10 * acc + DigitVal(Head(s)))
    ELSE acc

\* parseInt(s): leading white space is skipped, an optional sign is read,
\* then the longest prefix of decimal digits; NaN when there is no digit.
parseInt(s) ==
    LET t == DropLeadingSpace(s)
        neg == t # <<>> /\ Head(t) = "-"
        u == IF t # <<>> /\ Head(t) \in {"-", "+"} THEN Tail(t) ELSE t
    IN  IF u = <<>> \/ Head(u) \notin Digits
        THEN NaN
        ELSE Num((IF neg THEN -1 ELSE 1) * DigitPrefixValue(u, 0))

\* parseInt(p.replace(/[$,]/g, ''))
NumericPrice(p) == parseInt(StripDollarComma(p))

----------------------------------------------------------------------------
(* JSON values of the state file *)

HasField(r, f) == f \in DOMAIN r

\* null (no previous state)
Null == [json |-> "null"]

\* StateFile { lastRun, deals }; lastRun is a timestamp nothing reads.
StateFile(ds) == [json |-> "object", deals |-> ds]

IsNull(v) == v.json = "null"

----------------------------------------------------------------------------
(* compareWithPreviousState *)

\* Variant of previousDealsMap that keeps the first deal with a url.
previousDealsMapFirstWins(prevDeals) ==
    [u \in {prevDeals[i].url : i \in DOMAIN prevDeals} |->
        prevDeals[CHOOSE i \in DOMAIN prevDeals :
                     /\ prevDeals[i].url = u
                     /\ \A j \in DOMAIN prevDeals : prevDeals[j].url = u => i <= j]]

\* previousDealsMap: Map.set in list order, so the last deal with a url wins.
previousDealsMap(prevDeals) ==
    [u \in {prevDeals[i].url : i \in DOMAIN prevDeals} |->
        prevDeals[CHOOSE i \in DOMAIN prevDeals :
                     /\ prevDeals[i].url = u
                     /\ \A j \in DOMAIN prevDeals : prevDeals[j].url = u => j <= i]]

\* Variant of WithStatusNew that attaches the deal's own price as previousPrice.
WithStatusNewAndPreviousPrice(deal) ==
    [url |-> deal.url, price |-> deal.price, prices |-> deal.prices,
     status |-> "new", previousPrice |-> deal.price]

\* { ...deal, status: 'new' }
WithStatusNew(deal) ==
    [url |-> deal.url, price |-> deal.price, prices |-> deal.prices,
     status |-> "new"]

\* Variant of WithStatus that attaches the current price as previousPrice.
WithStatusCurrentPrice(deal, status, previousDeal) ==
    [url |-> deal.url, price |-> deal.price, prices |-> deal.prices,
     status |-> status, previousPrice |-> deal.price]

\* { ...currentDeal, status, previousPrice: previousDeal.price }
WithStatus(deal, status, previousDeal) ==
    [url |-> deal.url, price |-> deal.price, prices |-> deal.prices,
     status |-> status, previousPrice |-> previousDeal.price]

\* prices.length > 0 ? parseInt(prices[0].replace(/[$,]/g, '')) : 0
CheapestNumeric(deal) ==
    IF Len(deal.prices) > 0 THEN NumericPrice(deal.prices[1]) ELSE Num(0)

\* Variant of ClassifyDeal without the "can't compare prices" branch.
ClassifyDealNoZeroCheck(currentDeal, map) ==
    IF currentDeal.url \notin DOMAIN map
    THEN WithStatusNew(currentDeal)
    ELSE LET previousDeal == map[currentDeal.url]
             currentPrice == CheapestNumeric(currentDeal)
             previousPrice == CheapestNumeric(previousDeal)
         IN  IF LessThan(currentPrice, previousPrice)
             THEN WithStatus(currentDeal, "price_drop", previousDeal)
             ELSE IF GreaterThan(currentPrice, previousPrice)
             THEN WithStatus(currentDeal, "price_increase", previousDeal)
             ELSE WithStatus(currentDeal, "no_change", previousDeal)

\* The body of the for loop: the status of one current deal.
ClassifyDeal(currentDeal, map) ==
    IF currentDeal.url \notin DOMAIN map
    THEN WithStatusNew(currentDeal)
    ELSE LET previousDeal == map[currentDeal.url]
             currentPrice == CheapestNumeric(currentDeal)
             previousPrice == CheapestNumeric(previousDeal)
         IN  IF StrictEq(currentPrice, Num(0)) \/ StrictEq(previousPrice, Num(0))
             THEN WithStatus(currentDeal, "no_change", previousDeal)
             ELSE IF LessThan(currentPrice, previousPrice)
             THEN WithStatus(currentDeal, "price_drop", previousDeal)
             ELSE IF GreaterThan(currentPrice, previousPrice)
             THEN WithStatus(currentDeal, "price_increase", previousDeal)
             ELSE WithStatus(currentDeal, "no_change", previousDeal)

\* The TypeError compareWithPreviousState raises on a value that is not a
\* StateFile: prevState.deals.length on a missing deals, or
\* previousDeal.prices.length on a matched previous deal without prices.
compareThrows(currentDeals, prevState) ==
    IF IsNull(prevState) THEN FALSE
    ELSE IF ~HasField(prevState, "deals") THEN TRUE
    ELSE IF Len(prevState.deals) = 0 THEN FALSE
    ELSE LET map == previousDealsMap(prevState.deals)
         IN  \E i \in DOMAIN currentDeals :
                /\ currentDeals[i].url \in DOMAIN map
                /\ ~HasField(map[currentDeals[i].url], "prices")

\* Variant that takes every run for the first one.
IsFirstRunAlways(prevState) ==
    TRUE

\* !prevState || prevState.deals.length === 0
IsFirstRun(prevState) ==
    IsNull(prevState) \/ Len(prevState.deals) = 0

\* The value compareWithPreviousState returns when it does not throw.
compareWithPreviousState(currentDeals, prevState) ==
    IF IsFirstRun(prevState)
    THEN [i \in DOMAIN currentDeals |-> WithStatusNew(currentDeals[i])]
    ELSE LET map == previousDealsMap(prevState.deals)
         IN  [i \in DOMAIN currentDeals |-> ClassifyDeal(currentDeals[i], map)]

----------------------------------------------------------------------------
(* State Store: state.json *)

\* No state.json on disk.
FileAbsent == [exists |-> FALSE]

\* state.json holds text JSON.parse rejects.
FileUnparseable == [exists |-> TRUE, parses |-> FALSE]

\* state.json holds the JSON text of value v. JSON.stringify followed by
\* JSON.parse gives back the arrays and strings of a ConcertDeal unchanged.
FileJson(v) == [exists |-> TRUE, parses |-> TRUE, value |-> v]

\* loadPreviousState: null when the file is missing or JSON.parse throws.
loadPreviousState(file) ==
    IF file.exists /\ file.parses THEN file.value ELSE Null

\* saveState: the content writeFileSync leaves when it succeeds.
saveState(ds) == FileJson(StateFile(ds))

----------------------------------------------------------------------------
(* getPricesForEvent *)

\* What the event page gives: goto/evaluate throws, or the matches of
\* /\$[\d,]+/g in the body text, in document order.
PageError == [ok |-> FALSE, matches |-> <<>>]
Page(matches) == [ok |-> TRUE, matches |-> matches]

\* Variant of the plausibility check that accepts every positive amount
\* below 10000.
ReasonablePriceAbove0(match) ==
    LET n == NumericPrice(match)
    IN  ~n.nan /\ n.val > 0 /\ n.val < 10000

\* numericValue >= 10 && numericValue < 10000
ReasonablePrice(match) ==
    LET n == NumericPrice(match)
    IN  ~n.nan /\ n.val >= 10 /\ n.val < 10000

\* Array.from(priceSet): first occurrences, in insertion order.
RECURSIVE PriceSet(_, _)
PriceSet(matches, acc) ==
    IF matches = <<>> THEN acc
    ELSE IF ReasonablePrice(Head(matches))
            /\ \A i \in DOMAIN acc : acc[i] # Head(matches)
    THEN PriceSet(Tail(matches), Append(acc, Head(matches)))
    ELSE PriceSet(Tail(matches), acc)

\* One insertion of sort((a, b) => a.numeric - b.numeric), which is stable.
RECURSIVE InsertByNumeric(_, _)
InsertByNumeric(p, sorted) ==
    IF sorted = <<>> THEN <<p>>
    ELSE IF NumericPrice(p).val < NumericPrice(Head(sorted)).val
    THEN <<p>> \o sorted
    ELSE <<Head(sorted)>> \o InsertByNumeric(p, Tail(sorted))

RECURSIVE SortByNumeric(_)
SortByNumeric(ps) ==
    IF ps = <<>> THEN <<>>
    ELSE InsertByNumeric(ps[Len(ps)], SortByNumeric(SubSeq(ps, 1, Len(ps) - 1)))

\* .slice(0, 3)
CheapestKept == 3
SliceCheapest(ps) == SubSeq(ps, 1, IF Len(ps) < CheapestKept THEN Len(ps) ELSE CheapestKept)

getPricesForEvent(page) ==
    IF ~page.ok THEN <<>>
    ELSE SliceCheapest(SortByNumeric(PriceSet(page.matches, <<>>)))

----------------------------------------------------------------------------
(* Inputs of the diff, as the type ConcertDeal[] / StateFile | null allows *)

Urls == {"u1", "u2"}

\* prices arrays given to the diff: empty, a parseable cheapest price,
\* a zero price, an unparseable one, a price with a thousands separator.
CmpPrices == {<<>>, <<P40, P55>>, <<P50, P60>>, <<P0>>, <<PUnparseable>>, <<P1000>>}

\* price is prices[0] when there are prices, else the sentinel text.
CmpDeal(u, ps) ==
    [url |-> u, prices |-> ps,
     price |-> IF ps = <<>> THEN PriceNotAvailable ELSE ps[1]]

\* Every price case on u1; u2 is the other url, with and without prices.
CmpDeals ==
    {CmpDeal("u1", ps) : ps \in CmpPrices}
        \cup {CmpDeal("u2", ps) : ps \in {<<>>, <<P50, P60>>}}

SeqsUpTo(S, n) == UNION {[1..k -> S] : k \in 0..n}

----------------------------------------------------------------------------
(* fetchLastMinuteConcertDeals *)

\* Days ahead to search.
DAYS_AHEAD == 3

\* event.date as the card extraction builds it, `${weekday}, ${month} ${day}
\* ...`, held as its words: the weekday (or Today), the month word and the
\* digits of the day. The empty text is the card without a date.
DateText(weekday, month, day) == <<weekday, month, day>>
NoDateText == <<>>

\* toLowerCase, word by word.
ToLowerCase(word) ==
    CASE word = "Today" -> "today"
      [] word = "Mon" -> "mon" [] word = "Tue" -> "tue" [] word = "Wed" -> "wed"
      [] word = "Thu" -> "thu" [] word = "Fri" -> "fri" [] word = "Sat" -> "sat"
      [] word = "Sun" -> "sun"
      [] word = "Dec" -> "dec" [] word = "Jan" -> "jan"
      [] OTHER -> word

\* (Mon|Tue|Wed|Thu|Fri|Sat|Sun) with the i flag
WeekdayWords == {"mon", "tue", "wed", "thu", "fri", "sat", "sun"}

\* The month number Date parsing gives a month word, 0 for a word that is
\* not a month (Invalid Date).
MonthNumber(word) ==
    CASE ToLowerCase(word) = "jan" -> 1
      [] ToLowerCase(word) = "dec" -> 12
      [] OTHER -> 0

\* Days of a year before the first of the month (not a leap year).
DaysBeforeMonth(m) == IF m = 12 THEN 334 ELSE 0

\* A day as the number of days since the start of year 0 of the count.
DayNumber(year, m, day) == 365 * year + DaysBeforeMonth(m) + day

\* new Date(): the calendar day, its weekday, and whether the clock shows
\* the last millisecond of the day.
Now(weekday, year, m, day, lastMs) ==
    [weekday |-> weekday, year |-> year, month |-> m, day |-> day,
     lastMs |-> lastMs]

\* dateStr.includes('today')
IncludesToday(date) == \E i \in DOMAIN date : ToLowerCase(date[i]) = "today"

\* dateStr.includes('thu, dec 11')
IncludesThuDec11(date) ==
    /\ Len(date) = 3
    /\ ToLowerCase(date[1]) = "thu"
    /\ ToLowerCase(date[2]) = "dec"
    /\ date[3] = <<"1", "1">>

\* event.date.match(/(Mon|Tue|Wed|Thu|Fri|Sat|Sun),?\s+(\w+)\s+(\d+)/i)
DateMatches(date) ==
    /\ Len(date) = 3
    /\ ToLowerCase(date[1]) \in WeekdayWords
    /\ ~parseInt(date[3]).nan

\* The else branch after a match: the event's day in the current year at
\* 23:59:59.999, moved to next year when that is before now, compared with
\* getEndDate() (now plus DAYS_AHEAD days, same time of day). Every
\* comparison with an Invalid Date is false.
ParsedDateInWindow(now, date) ==
    LET month == MonthNumber(date[2])
        day == parseInt(date[3]).val
        today == DayNumber(now.year, now.month, now.day)
        thisYear == DayNumber(now.year, month, day)
        eventDay == IF thisYear < today
                    THEN DayNumber(now.year + 1, month, day)
                    ELSE thisYear
        endDay == today + DAYS_AHEAD
    IN  /\ month # 0
        /\ \/ eventDay < endDay
           \/ eventDay = endDay /\ now.lastMs

\* includeEvent after the date check of the filter loop.
DateWindowIncludes(debug, now, date) ==
    IF debug THEN TRUE
    ELSE IF date = NoDateText THEN FALSE
    ELSE IF IncludesToday(date) \/ IncludesThuDec11(date) THEN TRUE
    ELSE IF DateMatches(date) THEN ParsedDateInWindow(now, date)
    ELSE FALSE

\* The letters toLowerCase changes in the titles and patterns of the model.
UpperCaseLetters ==
    <<"A", "B", "C", "D", "E", "F", "G", "H", "I", "J", "K", "L", "M",
      "N", "O", "P", "Q", "R", "S", "T", "U", "V", "W", "X", "Y", "Z">>

LowerCaseLetters ==
    <<"a", "b", "c", "d", "e", "f", "g", "h", "i", "j", "k", "l", "m",
      "n", "o", "p", "q", "r", "s", "t", "u", "v", "w", "x", "y", "z">>

LowerChar(c) ==
    IF \E i \in DOMAIN UpperCaseLetters : UpperCaseLetters[i] = c
    THEN LowerCaseLetters[CHOOSE i \in DOMAIN UpperCaseLetters :
                                 UpperCaseLetters[i] = c]
    ELSE c

\* String.prototype.toLowerCase, a text being a tuple of one-character
\* strings.
toLowerCase(text) == [i \in DOMAIN text |-> LowerChar(text[i])]

\* String.prototype.includes
includes(text, sub) ==
    \E i \in 0..(Len(text) - Len(sub)) : SubSeq(text, i + 1, i + Len(sub)) = sub

\* new RegExp(pattern, 'i') throws a SyntaxError (nothing to repeat) when a
\* * stands first, after ^ or after another *; the patterns are made of
\* letters, spaces, '.', '*' and '^'.
RegExpValid(pattern) ==
    \A i \in DOMAIN pattern :
        pattern[i] = "*" => (i > 1 /\ pattern[i - 1] \notin {"^", "*"})

\* One pattern character against one input character under the flag 'i'.
CharMatches(re, c) == re = "." \/ LowerChar(re) = LowerChar(c)

\* Whether the pattern re matches a prefix of text; atStart tells whether
\* text begins at the start of the input.
RECURSIVE MatchHere(_, _, _)
MatchHere(re, text, atStart) ==
    IF re = <<>> THEN TRUE
    ELSE IF re[1] = "^" THEN atStart /\ MatchHere(Tail(re), text, atStart)
    ELSE IF Len(re) >= 2 /\ re[2] = "*"
         THEN \E k \in 0..Len(text) :
                 /\ \A j \in 1..k : CharMatches(re[1], text[j])
                 /\ MatchHere(SubSeq(re, 3, Len(re)),
                              SubSeq(text, k + 1, Len(text)),
                              atStart /\ k = 0)
    ELSE /\ text # <<>>
         /\ CharMatches(re[1], text[1])
         /\ MatchHere(Tail(re), Tail(text), FALSE)

\* Variant of the test in which ^ is satisfied at every position.
RegExpTestIgnoringAnchor(pattern, text) ==
    \E i \in 0..Len(text) :
        MatchHere(pattern, SubSeq(text, i + 1, Len(text)), TRUE)

\* new RegExp(pattern, 'i').test(text) for a valid pattern: a match may
\* start at any position of the input.
RegExpTest(pattern, text) ==
    \E i \in 0..Len(text) :
        MatchHere(pattern, SubSeq(text, i + 1, Len(text)), i = 0)

\* Variant of the pattern test without the catch: the SyntaxError of an
\* invalid pattern leaves the filter loop.
PatternTestUncaught(pattern, titleLower) ==
    IF RegExpValid(pattern)
    THEN [threw |-> FALSE, value |-> RegExpTest(pattern, titleLower)]
    ELSE [threw |-> TRUE, value |-> FALSE]

\* The callback of EXCLUDED_EVENTS.some: try { regex.test(titleLower) }
\* catch { titleLower.includes(pattern.toLowerCase()) }
PatternTest(pattern, titleLower) ==
    IF RegExpValid(pattern)
    THEN [threw |-> FALSE, value |-> RegExpTest(pattern, titleLower)]
    ELSE [threw |-> FALSE,
          value |-> includes(titleLower, toLowerCase(pattern))]

\* Variant of keywordMatch that excludes only titles starting with a keyword.
keywordMatchAtStart(keywords, titleLower) ==
    ~\E i \in DOMAIN keywords :
        LET keyword == toLowerCase(keywords[i])
        IN  /\ Len(keyword) <= Len(titleLower)
            /\ SubSeq(titleLower, 1, Len(keyword)) = keyword

\* keywordMatch = !EXCLUDED_KEYWORDS.some(keyword =>
\*     titleLower.includes(keyword.toLowerCase()))
keywordMatch(keywords, titleLower) ==
    ~\E i \in DOMAIN keywords :
        includes(titleLower, toLowerCase(keywords[i]))

\* eventMatch = !EXCLUDED_EVENTS.some(pattern => ...)
eventMatch(patterns, titleLower) ==
    ~\E i \in DOMAIN patterns : PatternTest(patterns[i], titleLower).value

\* Whether a pattern test of the filter loop throws.
FilterThrows(patterns, titles) ==
    \E i \in DOMAIN titles : \E j \in DOMAIN patterns :
        PatternTest(patterns[j], toLowerCase(titles[i])).threw

\* isIncluded = DEBUG || (keywordMatch && eventMatch)
isIncluded(debug, keywords, patterns, title) ==
    LET titleLower == toLowerCase(title)
    IN  debug \/ (keywordMatch(keywords, titleLower)
                    /\ eventMatch(patterns, titleLower))

\* The titles the filter loop keeps, in order.
FilterTitles(debug, keywords, patterns, titles) ==
    SelectSeq(titles, LAMBDA title : isIncluded(debug, keywords, patterns, title))

\* Price-range filter configuration.
MIN_PRICE == 1
MAX_PRICE == 90

\* One element of eventLinks with what the scrape finds for it: the card's
\* price text (empty when none), whether the date-window check
\* (DateWindowIncludes), the keyword and the pattern filters keep it,
\* whether the location check takes it for a
\* Las Vegas event, and the event page getPricesForEvent visits.
RawEvent(u, cardPrice, passes, lasVegas, page) ==
    [url |-> u, price |-> cardPrice, passes |-> passes,
     lasVegas |-> lasVegas, page |-> page]

RawEvents ==
    { RawEvent("u1", P50, TRUE, TRUE, Page(<<P60, P50>>)),
      RawEvent("u1", <<>>, TRUE, TRUE, Page(<<P55, P40, P55>>)),
      RawEvent("u2", P40, TRUE, TRUE, Page(<<P40>>)),
      RawEvent("u2", <<>>, TRUE, TRUE, PageError),
      RawEvent("u2", P1000, FALSE, FALSE, Page(<<P0>>)) }

\* Variant of the threshold that also aborts at exactly half.
HalfNotLasVegas(links) ==
    2 * Cardinality({i \in DOMAIN links : ~links[i].lasVegas})
        >= Len(links)

\* nonLasVegasEvents.length > eventLinks.length * 0.5
MajorityNotLasVegas(links) ==
    2 * Cardinality({i \in DOMAIN links : ~links[i].lasVegas})
        > Len(links)

\* deals.push({...}) for an event kept by the filters, then
\* deal.prices = prices; if (prices.length > 0) deal.price = prices[0]
DealOfEvent(event) ==
    LET prices == getPricesForEvent(event.page)
    IN  [url |-> event.url,
         prices |-> prices,
         price |-> IF Len(prices) > 0 THEN prices[1]
                   ELSE IF event.price = <<>> THEN PriceNotAvailable
                   ELSE event.price]

\* A bound of type number | null.
NoBound == [enabled |-> FALSE]
Bound(v) == [enabled |-> TRUE, val |-> v]

\* Variant of the predicate with exclusive bounds.
InRangeExclusive(deal, minPrice, maxPrice) ==
    IF Len(deal.prices) = 0 THEN FALSE
    ELSE LET numericPrice == NumericPrice(deal.prices[1])
         IN  /\ ~(minPrice.enabled /\ ~GreaterThan(numericPrice, Num(minPrice.val)))
             /\ ~(maxPrice.enabled /\ ~LessThan(numericPrice, Num(maxPrice.val)))

\* The predicate of deals.filter in the price-range step, for bounds
\* minPrice and maxPrice.
InRange(deal, minPrice, maxPrice) ==
    IF Len(deal.prices) = 0 THEN FALSE
    ELSE LET numericPrice == NumericPrice(deal.prices[1])
         IN  /\ ~(minPrice.enabled /\ LessThan(numericPrice, Num(minPrice.val)))
             /\ ~(maxPrice.enabled /\ GreaterThan(numericPrice, Num(maxPrice.val)))

\* The predicate with the configured bounds.
InPriceRange(deal) == InRange(deal, Bound(MIN_PRICE), Bound(MAX_PRICE))

\* Variant of the step that filters in debug mode too.
PriceRangeStepInDebug(debug, minPrice, maxPrice, ds) ==
    IF minPrice.enabled \/ maxPrice.enabled
    THEN SelectSeq(ds, LAMBDA d : InRange(d, minPrice, maxPrice))
    ELSE ds

\* if (!DEBUG && (MIN_PRICE !== null || MAX_PRICE !== null)) deals.filter(...)
PriceRangeStep(debug, minPrice, maxPrice, ds) ==
    IF ~debug /\ (minPrice.enabled \/ maxPrice.enabled)
    THEN SelectSeq(ds, LAMBDA d : InRange(d, minPrice, maxPrice))
    ELSE ds

RECURSIVE MapDeals(_)
MapDeals(events) ==
    IF events = <<>> THEN <<>>
    ELSE <<DealOfEvent(Head(events))>> \o MapDeals(Tail(events))

\* The deals fetchLastMinuteConcertDeals returns when it returns.
fetchLastMinuteConcertDeals(debug, links) ==
    LET kept == SelectSeq(links, LAMBDA e : debug \/ e.passes)
        priced == MapDeals(kept)
    IN  PriceRangeStep(debug, Bound(MIN_PRICE), Bound(MAX_PRICE), priced)

----------------------------------------------------------------------------
(* postToSlack and saveOutputJson *)

IsNew(d) == d.status = "new"
IsPriceDrop(d) == d.status = "price_drop"
IsNoteworthy(d) == d.status = "new" \/ d.status = "price_drop"

\* Variant of the guards that does not look at ENABLE_SLACK.
SlackWillPostIgnoringEnable(enabled, ds) ==
    /\ Len(ds) # 0
    /\ ~(Len(SelectSeq(ds, IsNew)) = 0 /\ Len(SelectSeq(ds, IsPriceDrop)) = 0)

\* The guards before the request: Slack enabled, a non-empty argument,
\* and at least one new deal or price drop in it.
SlackWillPost(enabled, ds) ==
    /\ enabled
    /\ Len(ds) # 0
    /\ ~(Len(SelectSeq(ds, IsNew)) = 0 /\ Len(SelectSeq(ds, IsPriceDrop)) = 0)

\* Variant of the body that leaves the price drops out.
SlackBodyNewOnly(ds) ==
    [listings |-> SelectSeq(ds, IsNew)]

\* The body of the POST: the deal sections in block order, the new deals
\* first and the price drops after them.
SlackBody(ds) ==
    [listings |-> SelectSeq(ds, IsNew) \o SelectSeq(ds, IsPriceDrop)]

\* Characters the url, title, venue and date texts of the event card at a
\* url add to its section block: long texts, where two listings together
\* stand for the many ordinary ones of a busy day.
ListingTextChars == [u \in Urls |-> IF u = "u1" THEN 1800 ELSE 1900]

\* JSON characters of the section and divider blocks pushed for one deal:
\* the literal part of the template plus the interpolated texts.
DealBlockChars(d) ==
    IF IsPriceDrop(d)
    THEN 111 + ListingTextChars[d.url] + Len(d.previousPrice) + Len(d.price)
    ELSE 106 + ListingTextChars[d.url] + Len(d.price)

RECURSIVE DealBlocksChars(_)
DealBlocksChars(ds) ==
    IF ds = <<>> THEN 0
    ELSE DealBlockChars(Head(ds)) + DealBlocksChars(Tail(ds))

\* Length of JSON.stringify({ channel, blocks }): the header and context
\* blocks, a heading section for each non-empty group, the deal blocks.
SlackBodyChars(body) ==
    287
    + (IF SelectSeq(body.listings, IsNew) # <<>> THEN 67 ELSE 0)
    + (IF SelectSeq(body.listings, IsPriceDrop) # <<>> THEN 69 ELSE 0)
    + DealBlocksChars(body.listings)

NoOutput == [written |-> FALSE]

OutputEntry(d) ==
    IF HasField(d, "previousPrice")
    THEN [url |-> d.url, currentPrice |-> d.price, allPrices |-> d.prices,
          status |-> d.status, previousPrice |-> d.previousPrice]
    ELSE [url |-> d.url, currentPrice |-> d.price, allPrices |-> d.prices,
          status |-> d.status]

\* The object saveOutputJson writes to output.json.
saveOutputJson(ds) ==
    [written |-> TRUE,
     totalDeals |-> Len(ds),
     newDeals |-> Len(SelectSeq(ds, IsNew)),
     priceDrops |-> Len(SelectSeq(ds, IsPriceDrop)),
     deals |-> [i \in DOMAIN ds |-> OutputEntry(ds[i])]]

----------------------------------------------------------------------------
(* main: one cron or one-time run, one action per awaited or effectful step *)

\* The variables of a process that has just started with its environment.
StartRun(oneTime, slack, debug) ==
    /\ ONE_TIME_RUN' = oneTime
    /\ ENABLE_SLACK' = slack
    /\ DEBUG' = debug
    /\ exitCode' = 0
    /\ fetchResult' = "none"
    /\ deals' = <<>>
    /\ previousState' = Null
    /\ dealsWithStatus' = <<>>
    /\ noteworthyDeals' = <<>>
    /\ slackResult' = "not_called"
    /\ webhookRequests' = <<>>
    /\ outputJson' = NoOutput
    /\ stateWrite' = "none"
    /\ stateFileAtStart' = stateFile
    /\ eventLinks' = <<>>
    /\ trace' = <<>>

BetweenRuns == pc \in {"idle", "exited"}

\* cron (or the user) starts the process once the previous one has ended:
\* the module constants are read from process.env and main() is entered.
MainStart ==
    /\ BetweenRuns
    /\ \E oneTime \in BOOLEAN, slack \in BOOLEAN, debug \in BOOLEAN :
          StartRun(oneTime, slack, debug)
    /\ pc' = "started"
    /\ UNCHANGED <<stateFile, fnVars>>

\* Variant in which a page failure inside getPricesForEvent is not caught
\* there: it reaches the catch of fetchLastMinuteConcertDeals, is rethrown,
\* and main exits 1.
MainFetchAbortsOnPageError ==
    /\ pc = "started"
    /\ \E links \in SeqsUpTo(RawEvents, MaxEvents) :
          /\ ~MajorityNotLasVegas(links)
          /\ eventLinks' = links
          /\ IF \E i \in DOMAIN links :
                    (DEBUG \/ links[i].passes) /\ links[i].page = PageError
             THEN /\ fetchResult' = "threw"
                  /\ pc' = "exited"
                  /\ exitCode' = 1
                  /\ UNCHANGED deals
             ELSE /\ deals' = fetchLastMinuteConcertDeals(DEBUG, links)
                  /\ fetchResult' = "returned"
                  /\ pc' = "fetched"
                  /\ UNCHANGED exitCode
    /\ trace' = Append(trace, "fetchLastMinuteConcertDeals")
    /\ UNCHANGED <<stateFile, fnVars, ONE_TIME_RUN, ENABLE_SLACK, DEBUG,
                   previousState, dealsWithStatus, noteworthyDeals,
                   slackResult, webhookRequests, outputJson, stateWrite,
                   stateFileAtStart>>

\* fetchLastMinuteConcertDeals returns its deals.
MainFetchReturns ==
    /\ pc = "started"
    /\ \E links \in SeqsUpTo(RawEvents, MaxEvents) :
          /\ ~MajorityNotLasVegas(links)
          /\ eventLinks' = links
          /\ deals' = fetchLastMinuteConcertDeals(DEBUG, links)
    /\ fetchResult' = "returned"
    /\ trace' = Append(trace, "fetchLastMinuteConcertDeals")
    /\ pc' = "fetched"
    /\ UNCHANGED <<stateFile, fnVars, ONE_TIME_RUN, ENABLE_SLACK, DEBUG,
                   exitCode, previousState, dealsWithStatus, noteworthyDeals,
                   slackResult, webhookRequests, outputJson, stateWrite,
                   stateFileAtStart>>

\* Variant in which the error of the scrape is logged and swallowed and
\* an empty list returned.
MainFetchSwallows ==
    /\ pc = "started"
    /\ fetchResult' = "threw"
    /\ deals' = <<>>
    /\ trace' = Append(trace, "fetchLastMinuteConcertDeals")
    /\ pc' = "fetched"
    /\ UNCHANGED <<stateFile, fnVars, ONE_TIME_RUN, ENABLE_SLACK, DEBUG,
                   exitCode, previousState, dealsWithStatus, noteworthyDeals,
                   slackResult, webhookRequests, outputJson, stateWrite,
                   stateFileAtStart, eventLinks>>

\* fetchLastMinuteConcertDeals rethrows (navigation failure, ...): the
\* catch of main calls process.exit(1).
MainFetchThrows ==
    /\ pc = "started"
    /\ fetchResult' = "threw"
    /\ trace' = Append(trace, "fetchLastMinuteConcertDeals")
    /\ pc' = "exited"
    /\ exitCode' = 1
    /\ UNCHANGED <<stateFile, fnVars, ONE_TIME_RUN, ENABLE_SLACK, DEBUG,
                   deals, previousState, dealsWithStatus, noteworthyDeals,
                   slackResult, webhookRequests, outputJson, stateWrite,
                   stateFileAtStart, eventLinks>>

\* The location check finds a majority of events outside Las Vegas:
\* process.exit(1) inside fetchLastMinuteConcertDeals.
MainFetchExits ==
    /\ pc = "started"
    /\ \E links \in SeqsUpTo(RawEvents, MaxEvents) :
          /\ MajorityNotLasVegas(links)
          /\ eventLinks' = links
    /\ fetchResult' = "exit"
    /\ trace' = Append(trace, "fetchLastMinuteConcertDeals")
    /\ pc' = "exited"
    /\ exitCode' = 1
    /\ UNCHANGED <<stateFile, fnVars, ONE_TIME_RUN, ENABLE_SLACK, DEBUG,
                   deals, previousState, dealsWithStatus, noteworthyDeals,
                   slackResult, webhookRequests, outputJson, stateWrite,
                   stateFileAtStart>>

\* Variant of the one-time branch that also persists the scraped deals.
MainDisplayDealsAndSave ==
    /\ pc = "fetched"
    /\ ONE_TIME_RUN
    /\ trace' = Append(trace, "displayDeals")
    /\ stateFile' = saveState(deals)
    /\ pc' = "exited"
    /\ exitCode' = 0
    /\ UNCHANGED <<fnVars, ONE_TIME_RUN, ENABLE_SLACK, DEBUG,
                   fetchResult, deals, previousState, dealsWithStatus,
                   noteworthyDeals, slackResult, webhookRequests, outputJson,
                   stateWrite, stateFileAtStart, eventLinks>>

\* if (ONE_TIME_RUN) displayDeals(deals); main returns.
MainDisplayDeals ==
    /\ pc = "fetched"
    /\ ONE_TIME_RUN
    /\ trace' = Append(trace, "displayDeals")
    /\ pc' = "exited"
    /\ exitCode' = 0
    /\ UNCHANGED <<stateFile, fnVars, ONE_TIME_RUN, ENABLE_SLACK, DEBUG,
                   fetchResult, deals, previousState, dealsWithStatus,
                   noteworthyDeals, slackResult, webhookRequests, outputJson,
                   stateWrite, stateFileAtStart, eventLinks>>

\* Variant of the step that does not read state.json.
MainLoadPreviousStateIgnoresFile ==
    /\ pc = "fetched"
    /\ ~ONE_TIME_RUN
    /\ previousState' = Null
    /\ trace' = Append(trace, "loadPreviousState")
    /\ pc' = "loaded"
    /\ UNCHANGED <<stateFile, fnVars, ONE_TIME_RUN, ENABLE_SLACK, DEBUG,
                   exitCode, fetchResult, deals, dealsWithStatus,
                   noteworthyDeals, slackResult, webhookRequests, outputJson,
                   stateWrite, stateFileAtStart, eventLinks>>

\* const previousState = loadPreviousState();
MainLoadPreviousState ==
    /\ pc = "fetched"
    /\ ~ONE_TIME_RUN
    /\ previousState' = loadPreviousState(stateFile)
    /\ trace' = Append(trace, "loadPreviousState")
    /\ pc' = "loaded"
    /\ UNCHANGED <<stateFile, fnVars, ONE_TIME_RUN, ENABLE_SLACK, DEBUG,
                   exitCode, fetchResult, deals, dealsWithStatus,
                   noteworthyDeals, slackResult, webhookRequests, outputJson,
                   stateWrite, stateFileAtStart, eventLinks>>

\* const dealsWithStatus = compareWithPreviousState(deals, previousState);
\* const noteworthyDeals = dealsWithStatus.filter(...);
\* displayDealsWithStatus(dealsWithStatus);
\* A TypeError thrown by compareWithPreviousState reaches the catch of main.
MainCompare ==
    /\ pc = "loaded"
    /\ trace' = Append(trace, "compareWithPreviousState")
    /\ IF compareThrows(deals, previousState)
       THEN /\ pc' = "exited"
            /\ exitCode' = 1
            /\ UNCHANGED <<dealsWithStatus, noteworthyDeals>>
       ELSE /\ dealsWithStatus' = compareWithPreviousState(deals, previousState)
            /\ noteworthyDeals' =
                   SelectSeq(compareWithPreviousState(deals, previousState),
                             IsNoteworthy)
            /\ pc' = "compared"
            /\ UNCHANGED exitCode
    /\ UNCHANGED <<stateFile, fnVars, ONE_TIME_RUN, ENABLE_SLACK, DEBUG,
                   fetchResult, deals, previousState, slackResult,
                   webhookRequests, outputJson, stateWrite, stateFileAtStart, eventLinks>>

\* Variant of postToSlack without its try/catch: a rejected fetch reaches
\* the catch of main.
MainPostToSlackUncaught ==
    /\ pc = "compared"
    /\ trace' = Append(trace, "postToSlack")
    /\ IF SlackWillPost(ENABLE_SLACK, noteworthyDeals)
       THEN /\ webhookRequests' = Append(webhookRequests, SlackBody(noteworthyDeals))
            /\ \/ /\ slackResult' \in {"ok", "http_error"}
                  /\ pc' = "posted"
                  /\ UNCHANGED exitCode
               \/ /\ slackResult' = "network_error"
                  /\ pc' = "exited"
                  /\ exitCode' = 1
       ELSE /\ slackResult' = "skipped"
            /\ pc' = "posted"
            /\ UNCHANGED <<webhookRequests, exitCode>>
    /\ UNCHANGED <<stateFile, fnVars, ONE_TIME_RUN, ENABLE_SLACK, DEBUG,
                   fetchResult, deals, previousState,
                   dealsWithStatus, noteworthyDeals, outputJson, stateWrite,
                   stateFileAtStart, eventLinks>>

\* await postToSlack(noteworthyDeals): returns early without a request, or
\* POSTs once; a rejected fetch and a non-ok response are both only logged.
MainPostToSlack ==
    /\ pc = "compared"
    /\ trace' = Append(trace, "postToSlack")
    /\ IF SlackWillPost(ENABLE_SLACK, noteworthyDeals)
       THEN /\ webhookRequests' = Append(webhookRequests, SlackBody(noteworthyDeals))
            /\ slackResult' \in {"ok", "http_error", "network_error"}
       ELSE /\ slackResult' = "skipped"
            /\ UNCHANGED webhookRequests
    /\ pc' = "posted"
    /\ UNCHANGED <<stateFile, fnVars, ONE_TIME_RUN, ENABLE_SLACK, DEBUG,
                   exitCode, fetchResult, deals, previousState,
                   dealsWithStatus, noteworthyDeals, outputJson, stateWrite,
                   stateFileAtStart, eventLinks>>

\* saveOutputJson(dealsWithStatus): a failing writeFileSync is only logged.
MainSaveOutputJson ==
    /\ pc = "posted"
    /\ trace' = Append(trace, "saveOutputJson")
    /\ \/ outputJson' = saveOutputJson(dealsWithStatus)
       \/ outputJson' = NoOutput
    /\ pc' = "outputSaved"
    /\ UNCHANGED <<stateFile, fnVars, ONE_TIME_RUN, ENABLE_SLACK, DEBUG,
                   exitCode, fetchResult, deals, previousState,
                   dealsWithStatus, noteworthyDeals, slackResult,
                   webhookRequests, stateWrite, stateFileAtStart, eventLinks>>

\* Variant of main that saves the state right after the comparison.
MainSaveStateBeforeSlack ==
    /\ pc = "compared"
    /\ \A i \in DOMAIN trace : trace[i] # "saveState"
    /\ trace' = Append(trace, "saveState")
    /\ stateFile' = saveState(deals)
    /\ stateWrite' = "ok"
    /\ pc' = "compared"
    /\ UNCHANGED <<fnVars, ONE_TIME_RUN, ENABLE_SLACK, DEBUG, exitCode,
                   fetchResult, deals, previousState, dealsWithStatus,
                   noteworthyDeals, slackResult, webhookRequests, outputJson,
                   stateFileAtStart, eventLinks>>

\* Variant of saveState that merges: the stored deals whose url the run did
\* not list are kept in front of the run's deals.
MainSaveStateMerging ==
    /\ pc = "outputSaved"
    /\ trace' = Append(trace, "saveState")
    /\ \/ /\ stateFile' =
                saveState(SelectSeq(IF IsNull(previousState) THEN <<>>
                                    ELSE previousState.deals,
                                    LAMBDA old : \A i \in DOMAIN deals :
                                                    deals[i].url # old.url)
                          \o deals)
          /\ stateWrite' = "ok"
       \/ /\ stateFile' = stateFile
          /\ stateWrite' = "failed"
    /\ pc' = "exited"
    /\ exitCode' = 0
    /\ UNCHANGED <<fnVars, ONE_TIME_RUN, ENABLE_SLACK, DEBUG,
                   fetchResult, deals, previousState, dealsWithStatus,
                   noteworthyDeals, slackResult, webhookRequests, outputJson,
                   stateFileAtStart, eventLinks>>

\* Variant of saveState whose failing writeFileSync is not caught: the
\* error reaches the catch of main, which exits 1.
MainSaveStateFailureIsFatal ==
    /\ pc = "outputSaved"
    /\ trace' = Append(trace, "saveState")
    /\ \/ /\ stateFile' = saveState(deals)
          /\ stateWrite' = "ok"
          /\ exitCode' = 0
       \/ /\ stateFile' = stateFile
          /\ stateWrite' = "failed"
          /\ exitCode' = 1
    /\ pc' = "exited"
    /\ UNCHANGED <<fnVars, ONE_TIME_RUN, ENABLE_SLACK, DEBUG,
                   fetchResult, deals, previousState, dealsWithStatus,
                   noteworthyDeals, slackResult, webhookRequests, outputJson,
                   stateFileAtStart, eventLinks>>

\* saveState(deals): a failing writeFileSync is only logged and leaves the
\* file as it was. main then logs the count and returns: exit code 0.
MainSaveState ==
    /\ pc = "outputSaved"
    /\ trace' = Append(trace, "saveState")
    /\ \/ /\ stateFile' = saveState(deals)
          /\ stateWrite' = "ok"
       \/ /\ stateFile' = stateFile
          /\ stateWrite' = "failed"
    /\ pc' = "exited"
    /\ exitCode' = 0
    /\ UNCHANGED <<fnVars, ONE_TIME_RUN, ENABLE_SLACK, DEBUG,
                   fetchResult, deals, previousState, dealsWithStatus,
                   noteworthyDeals, slackResult, webhookRequests, outputJson,
                   stateFileAtStart, eventLinks>>

\* state.json contents that are not a StateFile: text JSON.parse rejects,
\* the JSON text null, an object without deals, deals without prices.
MalformedStateFiles ==
    { FileUnparseable,
      FileJson(Null),
      FileJson([json |-> "object"]),
      FileJson(StateFile(<<[url |-> "u1", price |-> P50]>>)) }

IdleRun ==
    /\ ONE_TIME_RUN = FALSE
    /\ ENABLE_SLACK = FALSE
    /\ DEBUG = FALSE
    /\ pc = "idle"
    /\ exitCode = 0
    /\ fetchResult = "none"
    /\ deals = <<>>
    /\ previousState = Null
    /\ dealsWithStatus = <<>>
    /\ noteworthyDeals = <<>>
    /\ slackResult = "skipped"
    /\ webhookRequests = <<>>
    /\ outputJson = NoOutput
    /\ stateWrite = "none"
    /\ stateFileAtStart = FileAbsent
    /\ eventLinks = <<>>
    /\ trace = <<>>

\* Between two runs state.json is damaged or replaced from outside the
\* program (the runs themselves are serialized by cron).
CorruptStateFile ==
    /\ BetweenRuns
    /\ stateFile' \in MalformedStateFiles \ {stateFile}
    /\ StartRun(FALSE, FALSE, FALSE)
    /\ pc' = "idle"
    /\ UNCHANGED fnVars

CmpIdle ==
    /\ cmpCurrent = <<>>
    /\ cmpPrevious = Null
    /\ cmpResult = <<>>
    /\ cmpPc = "unused"

PricesIdle ==
    /\ pricesPage = PageError
    /\ pricesReturned = <<>>
    /\ pricesPc = "unused"

RangeIdle ==
    /\ rangeDebug = FALSE
    /\ rangeMin = NoBound
    /\ rangeMax = NoBound
    /\ rangeDeals = <<>>
    /\ rangeKept = <<>>
    /\ rangePc = "unused"

DateIdle ==
    /\ dateDebug = FALSE
    /\ dateNow = Now("Thu", 2025, 12, 11, FALSE)
    /\ dateText = NoDateText
    /\ includeEvent = FALSE
    /\ datePc = "unused"

ExclIdle ==
    /\ exclDebug = FALSE
    /\ exclKeywords = <<>>
    /\ exclPatterns = <<>>
    /\ exclTitles = <<>>
    /\ exclKept = <<>>
    /\ exclResult = "none"
    /\ exclPc = "unused"

Init ==
    /\ stateFile = FileAbsent
    /\ IdleRun
    /\ CmpIdle
    /\ PricesIdle
    /\ RangeIdle
    /\ DateIdle
    /\ ExclIdle

Next ==
    \/ MainStart
    \/ MainFetchReturns
    \/ MainFetchThrows
    \/ MainFetchExits
    \/ MainDisplayDeals
    \/ MainLoadPreviousState
    \/ MainCompare
    \/ MainPostToSlack
    \/ MainSaveOutputJson
    \/ MainSaveState
    \/ CorruptStateFile

Spec == Init /\ [][Next]_vars

----------------------------------------------------------------------------
(* The diff taken alone *)

CmpInit ==
    /\ cmpCurrent \in SeqsUpTo(CmpDeals, MaxDeals)
    /\ cmpPrevious \in {Null} \cup {StateFile(ds) : ds \in SeqsUpTo(CmpDeals, MaxDeals)}
    /\ cmpResult = <<>>
    /\ cmpPc = "input"
    /\ stateFile = FileAbsent
    /\ IdleRun
    /\ PricesIdle
    /\ RangeIdle
    /\ DateIdle
    /\ ExclIdle

\* The call compareWithPreviousState(currentDeals, previousState).
CmpCall ==
    /\ cmpPc = "input"
    /\ cmpResult' = compareWithPreviousState(cmpCurrent, cmpPrevious)
    /\ cmpPc' = "returned"
    /\ UNCHANGED <<cmpCurrent, cmpPrevious, pricesVars, rangeVars, dateVars,
                   exclVars, stateFile, runVars>>

CmpNext == CmpCall

SpecCompare == CmpInit /\ [][CmpNext]_vars

----------------------------------------------------------------------------
(* getPricesForEvent taken alone *)

\* Texts /\$[\d,]+/g can match in the body of an event page: amounts below,
\* at and above the bounds of the plausibility check, with and without a
\* thousands separator, and a match without digits.
PageMatches == {P5, P10, P55, P500, P1000, P10000, PComma}

PricesInit ==
    /\ pricesPage \in {PageError} \cup {Page(m) : m \in SeqsUpTo(PageMatches, MaxMatches)}
    /\ pricesReturned = <<>>
    /\ pricesPc = "input"
    /\ stateFile = FileAbsent
    /\ IdleRun
    /\ CmpIdle
    /\ RangeIdle
    /\ DateIdle
    /\ ExclIdle

\* The call getPricesForEvent(page, eventUrl).
PricesCall ==
    /\ pricesPc = "input"
    /\ pricesReturned' = getPricesForEvent(pricesPage)
    /\ pricesPc' = "returned"
    /\ UNCHANGED <<pricesPage, cmpVars, rangeVars, dateVars, exclVars, stateFile,
                   runVars>>

PricesNext == PricesCall

SpecPrices == PricesInit /\ [][PricesNext]_vars

----------------------------------------------------------------------------
(* The price-range step of fetchLastMinuteConcertDeals taken alone *)

\* Values MIN_PRICE and MAX_PRICE can be configured to.
MinPrices == {NoBound, Bound(1), Bound(55)}
MaxPrices == {NoBound, Bound(55), Bound(90)}

\* Deals as the price loop leaves them: the prices getPricesForEvent
\* returned for the page, price set from them.
RangeDeals ==
    {DealOfEvent(RawEvent("u1", <<>>, TRUE, TRUE, page)) :
        page \in {PageError, Page(<<P10>>), Page(<<P500, P55>>),
                  Page(<<P1000, P500>>)}}

RangeInit ==
    /\ rangeDebug \in BOOLEAN
    /\ rangeMin \in MinPrices
    /\ rangeMax \in MaxPrices
    /\ rangeDeals \in SeqsUpTo(RangeDeals, MaxDeals)
    /\ rangeKept = <<>>
    /\ rangePc = "input"
    /\ stateFile = FileAbsent
    /\ IdleRun
    /\ CmpIdle
    /\ PricesIdle
    /\ DateIdle
    /\ ExclIdle

\* The price-range step applied to the deals of the price loop.
RangeCall ==
    /\ rangePc = "input"
    /\ rangeKept' = PriceRangeStep(rangeDebug, rangeMin, rangeMax, rangeDeals)
    /\ rangePc' = "returned"
    /\ UNCHANGED <<rangeDebug, rangeMin, rangeMax, rangeDeals, cmpVars,
                   pricesVars, dateVars, exclVars, stateFile, runVars>>

RangeNext == RangeCall

SpecPriceRange == RangeInit /\ [][RangeNext]_vars

----------------------------------------------------------------------------
(* The date-window check of fetchLastMinuteConcertDeals taken alone *)

\* Days and times the scraper runs at: early in December 2025, the day
\* before and the day of Thursday December 11, and the end of the year.
RunDates ==
    {Now(wd[1], 2025, 12, wd[2], lastMs) :
        wd \in {<<"Mon", 1>>, <<"Wed", 10>>, <<"Thu", 11>>, <<"Tue", 30>>},
        lastMs \in BOOLEAN}

\* Date texts of event cards: none, a Today card, weekday cards in
\* December and January, a word that is no month, a text without a date.
DateTexts ==
    { NoDateText,
      DateText("Today", "Dec", <<"1">>),
      DateText("Mon", "Dec", <<"1">>),
      DateText("Thu", "Dec", <<"4">>),
      DateText("Wed", "Dec", <<"1", "0">>),
      DateText("Thu", "Dec", <<"1", "1">>),
      DateText("Sat", "Dec", <<"1", "3">>),
      DateText("Sun", "Dec", <<"1", "4">>),
      DateText("Thu", "Jan", <<"1">>),
      DateText("Fri", "Jan", <<"2">>),
      DateText("Thu", "Foo", <<"1", "1">>),
      <<"TBD">> }

DateInit ==
    /\ dateDebug \in BOOLEAN
    /\ dateNow \in RunDates
    /\ dateText \in DateTexts
    /\ includeEvent = TRUE
    /\ datePc = "input"
    /\ stateFile = FileAbsent
    /\ IdleRun
    /\ CmpIdle
    /\ PricesIdle
    /\ RangeIdle
    /\ ExclIdle

\* The date check of one event of the filter loop.
DateCheck ==
    /\ datePc = "input"
    /\ includeEvent' = DateWindowIncludes(dateDebug, dateNow, dateText)
    /\ datePc' = "returned"
    /\ UNCHANGED <<dateDebug, dateNow, dateText, cmpVars, pricesVars,
                   rangeVars, exclVars, stateFile, runVars>>

DateNext == DateCheck

SpecDateWindow == DateInit /\ [][DateNext]_vars

\* Event titles.

\* 'Lakers vs Warriors'
LakersVsWarriors ==
    <<"L", "a", "k", "e", "r", "s", " ", "v", "s", " ", "W", "a", "r", "r",
      "i", "o", "r", "s">>

\* 'NFL Super Bowl'
NflSuperBowl ==
    <<"N", "F", "L", " ", "S", "u", "p", "e", "r", " ", "B", "o", "w", "l">>

\* 'Jazz Night'
JazzNight ==
    <<"J", "a", "z", "z", " ", "N", "i", "g", "h", "t">>

\* 'Rock Concert'
RockConcert ==
    <<"R", "o", "c", "k", " ", "C", "o", "n", "c", "e", "r", "t">>

\* 'Gavin Adcock Live'
GavinAdcockLive ==
    <<"G", "a", "v", "i", "n", " ", "A", "d", "c", "o", "c", "k", " ", "L",
      "i", "v", "e">>

\* 'The Wizard of Oz'
TheWizardOfOz ==
    <<"T", "h", "e", " ", "W", "i", "z", "a", "r", "d", " ", "o", "f", " ",
      "O", "z">>

\* 'Wizard of Oz at Sphere'
WizardOfOzAtSphere ==
    <<"W", "i", "z", "a", "r", "d", " ", "o", "f", " ", "O", "z", " ", "a",
      "t", " ", "S", "p", "h", "e", "r", "e">>

\* '*Wizard of Oz* Live'
StarredWizardOfOzLive ==
    <<"*", "W", "i", "z", "a", "r", "d", " ", "o", "f", " ", "O", "z", "*",
      " ", "L", "i", "v", "e">>

\* Keywords of EXCLUDED_KEYWORDS.

\* 'nfl'
KwNfl ==
    <<"n", "f", "l">>

\* 'nba'
KwNba ==
    <<"n", "b", "a">>

\* 'soccer'
KwSoccer ==
    <<"s", "o", "c", "c", "e", "r">>

\* 'vs'
KwVs ==
    <<"v", "s">>

\* 'bowl'
KwBowl ==
    <<"b", "o", "w", "l">>

\* Patterns as EXCLUDED_EVENTS holds them.

\* 'gavin adcock'
PatGavinAdcock ==
    <<"g", "a", "v", "i", "n", " ", "a", "d", "c", "o", "c", "k">>

\* '^wizard of oz'
PatAnchoredWizardOfOz ==
    <<"^", "w", "i", "z", "a", "r", "d", " ", "o", "f", " ", "o", "z">>

\* 'wizard of oz'
PatWizardOfOz ==
    <<"w", "i", "z", "a", "r", "d", " ", "o", "f", " ", "o", "z">>

\* '*wizard of oz*': not valid regex syntax
PatStarredWizardOfOz ==
    <<"*", "w", "i", "z", "a", "r", "d", " ", "o", "f", " ", "o", "z", "*">>

\* 'rock.*concert'
PatRockAnyConcert ==
    <<"r", "o", "c", "k", ".", "*", "c", "o", "n", "c", "e", "r", "t">>

\* 'Jazz Night*': the * repeats the t
PatJazzNightStar ==
    <<"J", "a", "z", "z", " ", "N", "i", "g", "h", "t", "*">>

Titles ==
    { LakersVsWarriors, NflSuperBowl, JazzNight, RockConcert, GavinAdcockLive,
      TheWizardOfOz, WizardOfOzAtSphere, StarredWizardOfOzLive }

KeywordLists ==
    { <<>>, <<KwNfl>>, <<KwNba, KwNfl, KwSoccer>>, <<KwVs, KwBowl>> }

PatternLists ==
    { <<>>,
      <<PatGavinAdcock, PatAnchoredWizardOfOz>>,
      <<PatWizardOfOz>>,
      <<PatStarredWizardOfOz>>,
      <<PatRockAnyConcert>>,
      <<PatJazzNightStar>> }

\* The event lists of the two filter tests.
KeywordTestTitles == <<LakersVsWarriors, NflSuperBowl, JazzNight>>

PatternTestTitles ==
    <<GavinAdcockLive, TheWizardOfOz, WizardOfOzAtSphere, RockConcert>>

TitleLists ==
    SeqsUpTo(Titles, MaxTitles) \cup {KeywordTestTitles, PatternTestTitles}

ExclInit ==
    /\ exclDebug \in BOOLEAN
    /\ exclKeywords \in KeywordLists
    /\ exclPatterns \in PatternLists
    /\ exclTitles \in TitleLists
    /\ exclKept = <<>>
    /\ exclResult = "none"
    /\ exclPc = "input"
    /\ stateFile = FileAbsent
    /\ IdleRun
    /\ CmpIdle
    /\ PricesIdle
    /\ RangeIdle
    /\ DateIdle

\* The keyword and pattern filters of the filter loop over all events.
ExclFilter ==
    /\ exclPc = "input"
    /\ IF FilterThrows(exclPatterns, exclTitles)
       THEN /\ exclResult' = "threw"
            /\ UNCHANGED exclKept
       ELSE /\ exclResult' = "returned"
            /\ exclKept' = FilterTitles(exclDebug, exclKeywords, exclPatterns,
                                        exclTitles)
    /\ exclPc' = "done"
    /\ UNCHANGED <<exclDebug, exclKeywords, exclPatterns, exclTitles, cmpVars,
                   pricesVars, rangeVars, dateVars, stateFile, runVars>>

ExclNext == ExclFilter

SpecExclusion == ExclInit /\ [][ExclNext]_vars


----------------------------------------------------------------------------
(* Properties of compareWithPreviousState, under SpecCompare *)

\* The amount a price text of the inputs stands for, read off the text by
\* hand (not through parseInt); PUnparseable stands for no amount.
AmountOf(p) ==
    CASE p = P40 -> 40 [] p = P50 -> 50 [] p = P55 -> 55 [] p = P60 -> 60
      [] p = P1000 -> 1000 [] p = P0 -> 0
      [] p = P5 -> 5 [] p = P10 -> 10 [] p = P500 -> 500 [] p = P10000 -> 10000

\* No usable cheapest price: no prices, a zero price, or an unparseable one.
NoUsablePrice(deal) ==
    \/ deal.prices = <<>>
    \/ deal.prices[1] = PUnparseable
    \/ AmountOf(deal.prices[1]) = 0

Returned == cmpPc = "returned"

HasPreviousDeals == ~IsNull(cmpPrevious) /\ cmpPrevious.deals # <<>>

\* Positions of the previous deals with the url of current deal i.
SameUrlPositions(i) ==
    {j \in DOMAIN cmpPrevious.deals : cmpPrevious.deals[j].url = cmpCurrent[i].url}

Largest(S) == CHOOSE m \in S : \A n \in S : n <= m

\* The previous deal the lookup yields for current deal i (the last one).
LookedUp(i) == cmpPrevious.deals[Largest(SameUrlPositions(i))]

SameDeal(r, d) == r.url = d.url /\ r.price = d.price /\ r.prices = d.prices

\* C1: when previous is null or previous.deals is empty, the result has one
\* entry per current deal, in order, each with status 'new' and without a
\* previousPrice.
C1_FirstRunAllNew ==
    (Returned /\ (IsNull(cmpPrevious) \/ cmpPrevious.deals = <<>>)) =>
        /\ Len(cmpResult) = Len(cmpCurrent)
        /\ \A i \in DOMAIN cmpCurrent :
              /\ SameDeal(cmpResult[i], cmpCurrent[i])
              /\ cmpResult[i].status = "new"
              /\ ~HasField(cmpResult[i], "previousPrice")

C1_Witness ==
    /\ Returned
    /\ cmpPrevious = StateFile(<<>>)
    /\ Len(cmpCurrent) = MaxDeals
    /\ \A i \in DOMAIN cmpResult : cmpResult[i].status = "new"

\* C2: with a non-empty previous.deals each current deal is classified by
\* url lookup: 'new' when no previous deal has its url; otherwise, when both
\* cheapest prices are non-zero amounts c and p, 'price_drop' for c < p,
\* 'price_increase' for c > p and 'no_change' for c = p.
C2_ClassifyByUrlAndPrice ==
    (Returned /\ HasPreviousDeals) =>
        /\ Len(cmpResult) = Len(cmpCurrent)
        /\ \A i \in DOMAIN cmpCurrent :
              IF SameUrlPositions(i) = {}
              THEN cmpResult[i].status = "new"
              ELSE (~NoUsablePrice(cmpCurrent[i]) /\ ~NoUsablePrice(LookedUp(i))) =>
                      LET c == AmountOf(cmpCurrent[i].prices[1])
                          q == AmountOf(LookedUp(i).prices[1])
                      IN  /\ c < q => cmpResult[i].status = "price_drop"
                          /\ c > q => cmpResult[i].status = "price_increase"
                          /\ c = q => cmpResult[i].status = "no_change"

C2_Witness ==
    /\ Returned
    /\ HasPreviousDeals
    /\ Len(cmpPrevious.deals) = 2
    /\ cmpPrevious.deals[1].url = cmpPrevious.deals[2].url
    /\ cmpPrevious.deals[1].prices = <<P40, P55>>
    /\ cmpPrevious.deals[2].prices = <<P1000>>
    /\ \E i, j \in DOMAIN cmpResult :
          /\ cmpCurrent[i].prices = <<P50, P60>>
          /\ cmpResult[i].status = "price_drop"
          /\ cmpResult[j].status = "new"

\* C3: a current deal whose url matches a previous deal is 'no_change'
\* whenever either side has no usable cheapest price (no prices, a price
\* parsing to 0, or an unparseable price), whatever the other side's price.
C3_ZeroPriceConservatism ==
    (Returned /\ HasPreviousDeals) =>
        \A i \in DOMAIN cmpCurrent :
            (/\ SameUrlPositions(i) # {}
             /\ (NoUsablePrice(cmpCurrent[i]) \/ NoUsablePrice(LookedUp(i))))
                => cmpResult[i].status = "no_change"

C3_Witness ==
    /\ Returned
    /\ HasPreviousDeals
    /\ \E i, j \in DOMAIN cmpCurrent :
          /\ SameUrlPositions(i) # {}
          /\ cmpCurrent[i].prices = <<PUnparseable>>
          /\ LookedUp(i).prices = <<P40, P55>>
          /\ cmpResult[i].status = "no_change"
          /\ SameUrlPositions(j) # {}
          /\ cmpCurrent[j].prices = <<P50, P60>>
          /\ LookedUp(j).prices = <<>>
          /\ cmpResult[j].status = "no_change"

\* C4: diffing a non-empty list X against itself gives 'no_change' for
\* every listing; none comes out 'new', 'price_drop' or 'price_increase'.
C4_SelfDiffAllNoChange ==
    (Returned /\ cmpCurrent # <<>> /\ cmpPrevious = StateFile(cmpCurrent)) =>
        \A i \in DOMAIN cmpResult : cmpResult[i].status = "no_change"

\* C5: previousPrice is present exactly on the entries whose status is not
\* 'new', and there it is the price field of the previous deal looked up
\* by url.
C5_PreviousPriceIsPreviousDisplayPrice ==
    Returned =>
        \A i \in DOMAIN cmpResult :
            /\ HasField(cmpResult[i], "previousPrice") <=> cmpResult[i].status # "new"
            /\ cmpResult[i].status # "new" =>
                  /\ HasPreviousDeals
                  /\ SameUrlPositions(i) # {}
                  /\ cmpResult[i].previousPrice = LookedUp(i).price

C5_Witness ==
    /\ Returned
    /\ HasPreviousDeals
    /\ \E i, j \in DOMAIN cmpResult :
          /\ cmpResult[i].status = "price_drop"
          /\ cmpResult[i].previousPrice = P50
          /\ cmpResult[i].price = P40
          /\ cmpResult[j].status = "no_change"
          /\ cmpResult[j].previousPrice = PriceNotAvailable
          /\ cmpResult[j].price = P50

----------------------------------------------------------------------------
(* Properties of a run of main, under Spec *)

Exited == pc = "exited"

Called(f) == \E i \in DOMAIN trace : trace[i] = f

\* Position of the only call of f in the trace (0 when it was not called).
PositionOf(f) ==
    IF Called(f) THEN CHOOSE i \in DOMAIN trace : trace[i] = f ELSE 0

CallCount(f) == Cardinality({i \in DOMAIN trace : trace[i] = f})

\* state.json holds a StateFile whose deals are ds.
StateFileHolds(ds) ==
    /\ stateFile.exists
    /\ stateFile.parses
    /\ HasField(stateFile.value, "deals")
    /\ stateFile.value.deals = ds

\* output.json was written by this run and lists the classified deals ds.
OutputHolds(ds) ==
    /\ outputJson.written
    /\ Len(outputJson.deals) = Len(ds)
    /\ \A i \in DOMAIN ds :
          /\ outputJson.deals[i].url = ds[i].url
          /\ outputJson.deals[i].status = ds[i].status

\* C6: when fetchLastMinuteConcertDeals throws, the run exits non-zero
\* having written neither state.json nor output.json and having made no
\* webhook request; state.json is what it was when the run started.
C6_FetchFailureKeepsBaseline ==
    (Exited /\ fetchResult = "threw") =>
        /\ exitCode # 0
        /\ stateWrite = "none"
        /\ ~Called("saveState")
        /\ outputJson = NoOutput
        /\ ~Called("saveOutputJson")
        /\ webhookRequests = <<>>
        /\ ~Called("postToSlack")
        /\ stateFile = stateFileAtStart

C6_Witness ==
    /\ Exited
    /\ fetchResult = "threw"
    /\ exitCode = 1
    /\ stateFile.exists
    /\ stateFile.parses
    /\ HasField(stateFile.value, "deals")
    /\ stateFile.value.deals # <<>>

\* C7: a state.json that exists but is malformed (unparseable, without a
\* usable deals list, or with deals lacking prices) is treated as no prior
\* state: the cron run does not fail, every current deal is 'new', and the
\* run goes on to saveOutputJson and saveState.
C7_MalformedStateIsNoPriorState ==
    (/\ Exited
     /\ fetchResult = "returned"
     /\ ~ONE_TIME_RUN
     /\ stateFileAtStart \in MalformedStateFiles) =>
        /\ exitCode = 0
        /\ Len(dealsWithStatus) = Len(deals)
        /\ \A i \in DOMAIN dealsWithStatus : dealsWithStatus[i].status = "new"
        /\ Called("saveOutputJson")
        /\ Called("saveState")

\* C8: a webhook failure (rejected fetch or non-ok response) does not abort
\* the run: saveOutputJson and saveState are still called, what they write
\* is the current run's listings, and the process exits zero.
C8_WebhookFailureIsNotFatal ==
    (Exited /\ slackResult \in {"http_error", "network_error"}) =>
        /\ exitCode = 0
        /\ Called("saveOutputJson")
        /\ Called("saveState")
        /\ stateWrite # "none"
        /\ outputJson.written => OutputHolds(dealsWithStatus)
        /\ stateWrite = "ok" => StateFileHolds(deals)

C8_Witness ==
    /\ Exited
    /\ slackResult = "network_error"
    /\ exitCode = 0
    /\ deals # <<>>
    /\ OutputHolds(dealsWithStatus)
    /\ stateWrite = "ok"
    /\ StateFileHolds(deals)
    /\ stateFile # stateFileAtStart

\* C9: within one run saveState is called at most once and as the last
\* step: after loadPreviousState, compareWithPreviousState, postToSlack and
\* saveOutputJson, in that order; state.json changes only through it.
C9_StateWrittenOnceAndLast ==
    pc # "idle" =>
        /\ CallCount("saveState") <= 1
        /\ Called("saveState") =>
              /\ PositionOf("saveState") = Len(trace)
              /\ 0 < PositionOf("loadPreviousState")
              /\ PositionOf("loadPreviousState") < PositionOf("compareWithPreviousState")
              /\ PositionOf("compareWithPreviousState") < PositionOf("postToSlack")
              /\ PositionOf("postToSlack") < PositionOf("saveOutputJson")
              /\ PositionOf("saveOutputJson") < PositionOf("saveState")
        /\ stateWrite # "none" => Called("saveState")
        /\ stateFile # stateFileAtStart => (Called("saveState") /\ stateWrite = "ok")

C9_Witness ==
    /\ Exited
    /\ stateWrite = "ok"
    /\ stateFile # stateFileAtStart
    /\ webhookRequests # <<>>
    /\ outputJson.written
    /\ previousState # Null

\* C10: a webhook request is made only with a webhook URL configured and
\* at least one classified listing 'new' or 'price_drop'; with no URL or
\* nothing noteworthy postToSlack makes no request and the cron run still
\* goes through saveOutputJson and saveState and exits zero.
C10_WebhookOnlyWhenEnabledAndNoteworthy ==
    /\ webhookRequests # <<>> =>
          /\ ENABLE_SLACK
          /\ \E i \in DOMAIN dealsWithStatus :
                dealsWithStatus[i].status \in {"new", "price_drop"}
    /\ (/\ Called("postToSlack")
        /\ \/ ~ENABLE_SLACK
           \/ \A i \in DOMAIN dealsWithStatus :
                 dealsWithStatus[i].status \notin {"new", "price_drop"}) =>
          /\ webhookRequests = <<>>
          /\ Exited => /\ exitCode = 0
                       /\ Called("saveOutputJson")
                       /\ Called("saveState")

C10_Witness ==
    /\ Exited
    /\ ENABLE_SLACK
    /\ Called("postToSlack")
    /\ dealsWithStatus # <<>>
    /\ \A i \in DOMAIN dealsWithStatus :
          dealsWithStatus[i].status \in {"no_change", "price_increase"}
    /\ webhookRequests = <<>>
    /\ stateWrite = "ok"

\* The character limit of one Slack message the notification is sized for.
SlackCharLimit == 4000

\* C11: every webhook request has a serialized size under the ceiling of
\* about 4000 characters: listings that would take a request over it go
\* into a further request.
C11_RequestUnderSizeCeiling ==
    \A i \in DOMAIN webhookRequests :
        SlackBodyChars(webhookRequests[i]) < SlackCharLimit

\* The listings of the requests of this run, in dispatch order.
RECURSIVE ListingsOf(_)
ListingsOf(requests) ==
    IF requests = <<>> THEN <<>>
    ELSE Head(requests).listings \o ListingsOf(Tail(requests))

Notified == ListingsOf(webhookRequests)

NoteworthyPositions ==
    {i \in DOMAIN dealsWithStatus :
        dealsWithStatus[i].status \in {"new", "price_drop"}}

\* C12 as stated: the notified listings are the 'new' and 'price_drop'
\* classified listings in the order of the classified list.
C12_NotifiedInClassifiedOrder ==
    webhookRequests # <<>> =>
        /\ Len(Notified) = Cardinality(NoteworthyPositions)
        /\ \E f \in [DOMAIN Notified -> NoteworthyPositions] :
              /\ \A k \in DOMAIN Notified : Notified[k] = dealsWithStatus[f[k]]
              /\ \A k, l \in DOMAIN Notified : k < l => f[k] < f[l]

\* C12, amended: the notified listings are the 'new' and 'price_drop'
\* classified listings, each once and none left out; every 'new' listing
\* comes before every 'price_drop' listing, and within each of the two
\* groups the order is that of the classified list.
C12_NotifiedGroupedByStatus ==
    webhookRequests # <<>> =>
        /\ Len(Notified) = Cardinality(NoteworthyPositions)
        /\ \E f \in [DOMAIN Notified -> NoteworthyPositions] :
              /\ \A k \in DOMAIN Notified : Notified[k] = dealsWithStatus[f[k]]
              /\ \A k, l \in DOMAIN Notified : k # l => f[k] # f[l]
              /\ \A k, l \in DOMAIN Notified :
                    (k < l /\ Notified[k].status = Notified[l].status)
                        => f[k] < f[l]
        /\ \A k, l \in DOMAIN Notified :
              (k < l /\ Notified[k].status = "price_drop")
                  => Notified[l].status = "price_drop"

\* A price drop classified before a new listing, both notified.
C12_Witness ==
    /\ pc = "posted"
    /\ Len(dealsWithStatus) = 2
    /\ dealsWithStatus[1].status = "price_drop"
    /\ dealsWithStatus[2].status = "new"
    /\ Len(Notified) = 2
    /\ Notified[1] = dealsWithStatus[2]
    /\ Notified[2] = dealsWithStatus[1]

\* The two listings of the scenario, as the scrape returns them.
Run1Listing == [url |-> "u1", prices |-> <<P50, P60>>, price |-> P50]
Run2Listing == [url |-> "u1", prices |-> <<P40, P55>>, price |-> P40]

Run2Classified ==
    [url |-> "u1", prices |-> <<P40, P55>>, price |-> P40,
     status |-> "price_drop", previousPrice |-> P50]

CronRunOf(listing) == ~ONE_TIME_RUN /\ deals = <<listing>> /\ fetchResult = "returned"

AfterStep(steps) == pc \in steps \/ (Exited /\ exitCode = 0)

\* Run 1: no state.json, the scrape returns the first listing.
C13_Run1 ==
    (CronRunOf(Run1Listing) /\ stateFileAtStart = FileAbsent) =>
        /\ AfterStep({"compared", "posted", "outputSaved"}) =>
              /\ Len(dealsWithStatus) = 1
              /\ dealsWithStatus[1].status = "new"
        /\ (Exited /\ stateWrite = "ok") => StateFileHolds(<<Run1Listing>>)

\* Run 2 starts with what run 1 left in state.json.
C13_Link ==
    (Exited /\ pc' = "started") =>
        /\ stateFile' = stateFile
        /\ stateFileAtStart' = stateFile

\* Run 2: state.json holds the first listing, the scrape returns the second.
C13_Run2 ==
    (CronRunOf(Run2Listing) /\ stateFileAtStart = saveState(<<Run1Listing>>)) =>
        /\ AfterStep({"compared", "posted", "outputSaved"}) =>
              dealsWithStatus = <<Run2Classified>>
        /\ (AfterStep({"posted", "outputSaved"}) /\ ENABLE_SLACK) =>
              /\ Len(webhookRequests) = 1
              /\ webhookRequests[1].listings = <<Run2Classified>>
        /\ (Exited /\ stateWrite = "ok") => StateFileHolds(<<Run2Listing>>)

\* C13: a first cron run without state.json that scrapes {u1, [$50,$60]}
\* persists that listing; the next cron run, scraping {u1, [$40,$55]},
\* classifies it 'price_drop' with previousPrice '$50', notifies exactly
\* this listing, and leaves the run-2 listing in state.json.
C13_TwoRunPriceDrop ==
    /\ []C13_Run1
    /\ [][C13_Link]_vars
    /\ []C13_Run2

C13_Witness ==
    /\ Exited
    /\ CronRunOf(Run2Listing)
    /\ stateFileAtStart = saveState(<<Run1Listing>>)
    /\ dealsWithStatus = <<Run2Classified>>
    /\ webhookRequests = <<[listings |-> <<Run2Classified>>]>>
    /\ stateWrite = "ok"
    /\ StateFileHolds(<<Run2Listing>>)

CountWithStatus(status) ==
    Cardinality({i \in DOMAIN dealsWithStatus : dealsWithStatus[i].status = status})

\* output.json lists every classified listing, in order, with its fields.
OutputListsClassified ==
    /\ DOMAIN outputJson.deals = DOMAIN dealsWithStatus
    /\ \A i \in DOMAIN dealsWithStatus :
          LET o == outputJson.deals[i]
              d == dealsWithStatus[i]
          IN  /\ o.url = d.url
              /\ o.status = d.status
              /\ o.currentPrice = d.price
              /\ o.allPrices = d.prices
              /\ HasField(o, "previousPrice") <=> HasField(d, "previousPrice")
              /\ HasField(d, "previousPrice") => o.previousPrice = d.previousPrice

\* C14: a cron run whose scrape returned ends having called saveOutputJson,
\* whatever postToSlack did, and the file it writes has totalDeals,
\* newDeals and priceDrops equal to the number of classified, 'new' and
\* 'price_drop' listings and lists every classified listing in order.
C14_OutputAlwaysWritten ==
    (Exited /\ ~ONE_TIME_RUN /\ fetchResult = "returned") =>
        /\ Called("saveOutputJson")
        /\ Len(dealsWithStatus) = Len(deals)
        /\ outputJson.written =>
              /\ outputJson.totalDeals = Len(dealsWithStatus)
              /\ outputJson.newDeals = CountWithStatus("new")
              /\ outputJson.priceDrops = CountWithStatus("price_drop")
              /\ OutputListsClassified

CronOnlySteps ==
    {"loadPreviousState", "compareWithPreviousState", "postToSlack",
     "saveOutputJson", "saveState"}

\* C15: a one-time run only scrapes and prints: it does not read or write
\* state.json, classifies nothing, writes no output.json and makes no
\* webhook request; the diff, notify and persist steps run in cron mode only.
C15_OneTimeRunOnlyDisplays ==
    /\ (ONE_TIME_RUN /\ pc # "idle") =>
          /\ \A f \in CronOnlySteps : ~Called(f)
          /\ stateFile = stateFileAtStart
          /\ stateWrite = "none"
          /\ previousState = Null
          /\ dealsWithStatus = <<>>
          /\ noteworthyDeals = <<>>
          /\ outputJson = NoOutput
          /\ webhookRequests = <<>>
          /\ slackResult = "not_called"
          /\ (Exited /\ fetchResult = "returned") =>
                trace = <<"fetchLastMinuteConcertDeals", "displayDeals">>
    /\ Called("displayDeals") => ONE_TIME_RUN

\* A one-time run with a webhook configured and scraped deals, ended, with
\* the state.json of an earlier cron run (other deals) left as it was.
C15_Witness ==
    /\ Exited
    /\ ONE_TIME_RUN
    /\ ENABLE_SLACK
    /\ Called("displayDeals")
    /\ deals # <<>>
    /\ stateFile.exists
    /\ stateFile.parses
    /\ HasField(stateFile.value, "deals")
    /\ stateFile.value.deals # deals
    /\ stateFile = stateFileAtStart

UrlsUnique(ds) == \A i, j \in DOMAIN ds : ds[i].url = ds[j].url => i = j

\* C16: no two listings returned by one scrape share a url, so a url is
\* classified at most once and notified at most once per run.
C16_UrlUniqueWithinScrape ==
    /\ UrlsUnique(deals)
    /\ UrlsUnique(dealsWithStatus)
    /\ UrlsUnique(Notified)

\* C17: every listing fetchLastMinuteConcertDeals returns, in debug mode
\* too, has price = prices[0] when it has prices and the text
\* 'Price not available' when it has none.
C17_PriceIsFirstPriceOrSentinel ==
    \A i \in DOMAIN deals :
        /\ deals[i].prices # <<>> => deals[i].price = deals[i].prices[1]
        /\ deals[i].prices = <<>> => deals[i].price = PriceNotAvailable

----------------------------------------------------------------------------
(* Properties of getPricesForEvent, under SpecPrices *)

PricesCalled == pricesPc = "returned"

\* The price texts matched on the page that stand for an amount.
Observed ==
    {pricesPage.matches[i] : i \in DOMAIN pricesPage.matches} \ {PComma}

Kept == {pricesReturned[i] : i \in DOMAIN pricesReturned}

\* At most 3 prices, no text twice, non-decreasing amounts.
ShortAndSorted ==
    /\ Len(pricesReturned) <= 3
    /\ \A i, j \in DOMAIN pricesReturned :
          i < j => /\ pricesReturned[i] # pricesReturned[j]
                   /\ AmountOf(pricesReturned[i]) <= AmountOf(pricesReturned[j])

\* The returned prices are the cheapest ones of the set S of price texts.
CheapestOf(S) ==
    /\ Kept \subseteq S
    /\ \A m \in S \ Kept :
          /\ Len(pricesReturned) = 3
          /\ \A r \in Kept : AmountOf(r) <= AmountOf(m)

\* C18 as stated: the prices of a listing are at most 3, non-decreasing in
\* amount, and the cheapest of the prices observed on its page.
C18_CheapestOfObserved ==
    PricesCalled => (ShortAndSorted /\ CheapestOf(Observed))

\* C18, amended: the prices of a listing are at most 3, non-decreasing in
\* amount ('$1,000' after '$500'), and the cheapest of the distinct prices
\* observed on its page whose amount is at least 10 and below 10000.
C18_CheapestOfPlausible ==
    PricesCalled =>
        /\ ShortAndSorted
        /\ CheapestOf({m \in Observed : AmountOf(m) >= 10 /\ AmountOf(m) < 10000})

\* Four plausible prices observed, the one with a thousands separator
\* first: the three cheapest are returned in order of amount.
C18_Witness ==
    /\ PricesCalled
    /\ pricesPage = Page(<<P1000, P500, P55, P10>>)
    /\ pricesReturned = <<P10, P55, P500>>

----------------------------------------------------------------------------
(* Properties of the price-range step, under SpecPriceRange *)

RangeApplied == rangePc = "returned" /\ ~rangeDebug

\* What the claim keeps: a listing with known prices whose cheapest amount
\* is within the enabled bounds, both inclusive.
WithinEnabledBounds(d) ==
    /\ d.prices # <<>>
    /\ rangeMin.enabled => rangeMin.val <= AmountOf(d.prices[1])
    /\ rangeMax.enabled => AmountOf(d.prices[1]) <= rangeMax.val

\* C19 as stated: outside debug mode, for every combination of enabled and
\* disabled bounds, the step drops every listing without prices and keeps
\* a priced listing exactly when its cheapest price is within the enabled
\* bounds, inclusive.
C19_RangeFilterEveryCombination ==
    RangeApplied => rangeKept = SelectSeq(rangeDeals, WithinEnabledBounds)

\* C19, amended: outside debug mode, when at least one bound is enabled the
\* step drops every listing without prices and keeps a priced listing
\* exactly when its cheapest price is within the enabled bounds, inclusive;
\* when both bounds are disabled the step is skipped and every listing is
\* kept, those without prices too.
C19_RangeFilterWhenABoundIsEnabled ==
    RangeApplied =>
        IF rangeMin.enabled \/ rangeMax.enabled
        THEN rangeKept = SelectSeq(rangeDeals, WithinEnabledBounds)
        ELSE rangeKept = rangeDeals

\* Only the upper bound enabled: the listing without prices is dropped and
\* the listing whose cheapest price equals the bound is kept.
C19_Witness ==
    /\ RangeApplied
    /\ rangeMin = NoBound
    /\ rangeMax = Bound(55)
    /\ Len(rangeDeals) = 2
    /\ rangeDeals[1].prices = <<>>
    /\ rangeDeals[2].prices = <<P55, P500>>
    /\ rangeKept = <<rangeDeals[2]>>

----------------------------------------------------------------------------
(* Properties of the date-window check, under SpecDateWindow *)

DateChecked == datePc = "returned" /\ ~dateDebug

\* Read off the text by hand: the month and the day of a weekday card.
CardMonth == IF dateText[2] = "Dec" THEN 12 ELSE 1
CardDay ==
    CASE dateText[3] = <<"1">> -> 1 [] dateText[3] = <<"2">> -> 2
      [] dateText[3] = <<"4">> -> 4 [] dateText[3] = <<"1", "0">> -> 10
      [] dateText[3] = <<"1", "1">> -> 11 [] dateText[3] = <<"1", "3">> -> 13
      [] dateText[3] = <<"1", "4">> -> 14

SaysToday == dateText # NoDateText /\ dateText[1] = "Today"

IsWeekdayCard ==
    /\ Len(dateText) = 3
    /\ dateText[1] \in {"Mon", "Tue", "Wed", "Thu", "Fri", "Sat", "Sun"}
    /\ dateText[2] \in {"Dec", "Jan"}

IsCurrentDayText ==
    /\ IsWeekdayCard
    /\ dateText[1] = dateNow.weekday
    /\ CardMonth = dateNow.month
    /\ CardDay = dateNow.day

\* Days from the run day to the next day with the card's month and day
\* (all run days are in December 2025: 31 days in December).
DaysUntilCard ==
    LET ahead == IF CardMonth = 12 THEN CardDay - dateNow.day
                 ELSE (31 - dateNow.day) + CardDay
    IN  IF ahead < 0 THEN ahead + 365 ELSE ahead

\* The end of the card's day is at or before now + DAYS_AHEAD days.
EndOfDayWithinWindow ==
    /\ IsWeekdayCard
    /\ \/ DaysUntilCard < DAYS_AHEAD
       \/ DaysUntilCard = DAYS_AHEAD /\ dateNow.lastMs

\* C20: outside debug mode the date check keeps an event only if its date
\* text says today, is the run day's own weekday and date, or is a weekday,
\* month and day whose end of day is at or before now + DAYS_AHEAD days
\* (this year, or next year when already past); an absent or unparseable
\* date text is never kept.
C20_KeptOnlyInsideDateWindow ==
    DateChecked =>
        /\ includeEvent => (SaysToday \/ IsCurrentDayText \/ EndOfDayWithinWindow)
        /\ (~SaysToday /\ ~IsWeekdayCard) => ~includeEvent

----------------------------------------------------------------------------
(* Properties of fetchLastMinuteConcertDeals within a run, under Spec *)

FetchReturned == fetchResult = "returned"

\* The cheapest plausible amount on the page of a scraped event, read off
\* the page by hand; 0 when the page fails or shows no plausible price.
CheapestOnPage(event) ==
    CASE event.page = Page(<<P60, P50>>) -> 50
      [] event.page = Page(<<P55, P40, P55>>) -> 40
      [] event.page = Page(<<P40>>) -> 40
      [] OTHER -> 0

\* Positions of the scraped events that pass the date-window, keyword and
\* pattern filters and have a cheapest price within the configured range.
PassingPositions ==
    {i \in DOMAIN eventLinks :
        /\ eventLinks[i].passes
        /\ CheapestOnPage(eventLinks[i]) >= MIN_PRICE
        /\ CheapestOnPage(eventLinks[i]) <= MAX_PRICE}

\* The k-th smallest element of a set of positions.
NthOf(S, k) == CHOOSE i \in S : Cardinality({j \in S : j < i}) = k - 1

\* C21: in debug mode every scraped event becomes a listing, whatever its
\* date, title and prices; outside debug mode the listings are exactly the
\* events that pass the date-window, keyword, pattern and price-range
\* filters together, in scrape order.
C21_DebugBypassesEveryFilter ==
    FetchReturned =>
        IF DEBUG
        THEN /\ Len(deals) = Len(eventLinks)
             /\ \A i \in DOMAIN deals : deals[i].url = eventLinks[i].url
        ELSE /\ Len(deals) = Cardinality(PassingPositions)
             /\ \A k \in DOMAIN deals :
                   /\ deals[k].url = eventLinks[NthOf(PassingPositions, k)].url
                   /\ AmountOf(deals[k].prices[1])
                         = CheapestOnPage(eventLinks[NthOf(PassingPositions, k)])

\* A debug run in which an event that fails the filters and has no prices
\* is returned as a listing.
C21_Witness ==
    /\ FetchReturned
    /\ DEBUG
    /\ Len(eventLinks) = 2
    /\ eventLinks[1].passes
    /\ ~eventLinks[2].passes
    /\ Len(deals) = 2
    /\ deals[2].url = eventLinks[2].url
    /\ deals[2].prices = <<>>

\* Positions of the events the price loop visits: those passing the
\* filter loop.
VisitedPositions == {i \in DOMAIN eventLinks : DEBUG \/ eventLinks[i].passes}

PageFailedAt(i) == i \in VisitedPositions /\ eventLinks[i].page = PageError

\* The prices the price loop leaves on the listing of the event at position
\* i are the ones on its page (none when the page failed).
PricesFetchedFor(i, deal) ==
    /\ deal.url = eventLinks[i].url
    /\ IF CheapestOnPage(eventLinks[i]) = 0
       THEN deal.prices = <<>>
       ELSE AmountOf(deal.prices[1]) = CheapestOnPage(eventLinks[i])

NotInLasVegas == Cardinality({i \in DOMAIN eventLinks : ~eventLinks[i].lasVegas})

LocationChecked == fetchResult \in {"returned", "exit"}

\* C23: once the events are extracted, the run aborts in the location check
\* exactly when strictly more than half of them are detected as not being
\* in Las Vegas; it then exits 1 without compareWithPreviousState,
\* postToSlack, saveOutputJson or saveState and with no webhook request.
\* With at most half, fetchLastMinuteConcertDeals returns and main goes on.
C23_AbortsOnMajorityOutsideLasVegas ==
    LocationChecked =>
        /\ (fetchResult = "exit") <=> (2 * NotInLasVegas > Len(eventLinks))
        /\ fetchResult = "exit" =>
              /\ Exited
              /\ exitCode = 1
              /\ trace = <<"fetchLastMinuteConcertDeals">>
              /\ webhookRequests = <<>>
        /\ (fetchResult = "returned" /\ Exited) =>
              IF ONE_TIME_RUN THEN trace[Len(trace)] = "displayDeals"
              ELSE Called("compareWithPreviousState")

\* Two extracted events, both outside Las Vegas, with a baseline on disk:
\* the run has exited 1 and the baseline is untouched.
C23_Witness ==
    /\ fetchResult = "exit"
    /\ Len(eventLinks) = 2
    /\ NotInLasVegas = 2
    /\ Exited
    /\ exitCode = 1
    /\ ~ONE_TIME_RUN
    /\ stateFileAtStart \notin MalformedStateFiles
    /\ stateFile = stateFileAtStart
    /\ StateFileHolds(stateFile.value.deals)
    /\ Len(stateFile.value.deals) > 0

\* Exactly half of the extracted events are outside Las Vegas and the cron
\* run has completed.
C23_HalfContinues ==
    /\ fetchResult = "returned"
    /\ Len(eventLinks) = 2
    /\ NotInLasVegas = 1
    /\ Exited
    /\ exitCode = 0
    /\ Called("saveState")

\* No raw record was extracted and fetchLastMinuteConcertDeals returned.
EmptyScrape == fetchResult = "returned" /\ eventLinks = <<>>

\* C24: an empty scrape is tolerated: with zero raw records the listing
\* list is empty, and the cron run exits zero, makes no webhook request and
\* still calls saveOutputJson and saveState.
C24_EmptyScrapeTolerated ==
    EmptyScrape =>
        /\ deals = <<>>
        /\ (Exited /\ ~ONE_TIME_RUN) =>
              /\ exitCode = 0
              /\ webhookRequests = <<>>
              /\ Called("saveOutputJson")
              /\ Called("saveState")

----------------------------------------------------------------------------
(* Properties of the keyword and pattern filters, under SpecExclusion *)

\* The filter loop has run outside debug mode.
ExclFiltered == exclPc = "done" /\ exclResult = "returned" /\ ~exclDebug

TitleKept(title) == \E i \in DOMAIN exclKept : exclKept[i] = title

\* The lower-cased title has the text sub, letter for letter, from
\* position a + 1 on.
OccursAt(title, sub, a) ==
    /\ a + Len(sub) <= Len(title)
    /\ \A j \in DOMAIN sub : LowerChar(title[a + j]) = LowerChar(sub[j])

Occurs(title, sub) == \E a \in 0..Len(title) : OccursAt(title, sub, a)

ContainsKeyword(title) ==
    \E i \in DOMAIN exclKeywords : Occurs(title, exclKeywords[i])

IsLiteral(pattern) ==
    \A i \in DOMAIN pattern : pattern[i] \notin {"^", "*", "."}

\* What each pattern of the model excludes, read off the pattern: a literal
\* pattern the titles containing it, ^ and a literal the titles starting
\* with it, a pattern that is not valid regex syntax the titles containing
\* it character for character, 'rock.*concert' and 'Jazz Night*' the one
\* title with rock before concert and the one with jazz nigh.
ExcludedByPattern(pattern, title) ==
    IF IsLiteral(pattern) THEN Occurs(title, pattern)
    ELSE IF pattern[1] = "^" /\ IsLiteral(Tail(pattern))
         THEN OccursAt(title, Tail(pattern), 0)
    ELSE IF pattern[1] = "*" THEN Occurs(title, pattern)
    ELSE IF pattern = PatRockAnyConcert THEN title = RockConcert
    ELSE pattern = PatJazzNightStar /\ title = JazzNight

PatternTestRun ==
    /\ ExclFiltered
    /\ exclKeywords = <<>>
    /\ exclPatterns = <<PatGavinAdcock, PatAnchoredWizardOfOz>>
    /\ exclTitles = PatternTestTitles

----------------------------------------------------------------------------
(* Properties of consecutive cron runs, under Spec *)

\* The deals of the stored run the current run compares against (none when
\* there is no usable state).
StoredDeals ==
    IF IsNull(previousState) \/ ~HasField(previousState, "deals") THEN <<>>
    ELSE previousState.deals

\* The cheapest price of a listing, 0 when it has no prices.
CheapestPrice(d) == IF d.prices = <<>> THEN 0 ELSE AmountOf(d.prices[1])

\* state.json at the start of the run holds a list with the urls and the
\* cheapest prices of the list this run scraped.
SameListAsStored ==
    /\ stateFileAtStart.exists
    /\ stateFileAtStart.parses
    /\ HasField(stateFileAtStart.value, "deals")
    /\ LET stored == stateFileAtStart.value.deals
       IN  /\ Len(stored) = Len(deals)
           /\ \A i \in DOMAIN deals :
                 /\ HasField(stored[i], "prices")
                 /\ stored[i].url = deals[i].url
                 /\ CheapestPrice(stored[i]) = CheapestPrice(deals[i])

\* A completed cron run whose state write succeeded is followed by a run
\* that starts from the list it stored.
C28_Link ==
    (Exited /\ ~ONE_TIME_RUN /\ exitCode = 0 /\ stateWrite = "ok"
        /\ pc' = "started") =>
        stateFileAtStart' = saveState(deals)

\* The run after it, scraping the same list with unique urls, classifies
\* every listing 'no_change', makes no webhook request and completes.
C28_SameListRun ==
    (~ONE_TIME_RUN /\ FetchReturned /\ UrlsUnique(deals) /\ SameListAsStored) =>
        /\ AfterStep({"compared", "posted", "outputSaved"}) =>
              /\ Len(dealsWithStatus) = Len(deals)
              /\ \A i \in DOMAIN dealsWithStatus :
                    dealsWithStatus[i].status = "no_change"
        /\ webhookRequests = <<>>
        /\ Exited => exitCode = 0

\* Every notified listing is 'new' and absent from the stored run, or
\* 'price_drop' and cheaper than the listing of its url in the stored run.
C28_NotifiedOnlyIfNewOrCheaper ==
    \A i \in DOMAIN Notified :
        LET d == Notified[i]
        IN  \/ /\ d.status = "new"
               /\ \A j \in DOMAIN StoredDeals : StoredDeals[j].url # d.url
            \/ /\ d.status = "price_drop"
               /\ \E j \in DOMAIN StoredDeals :
                     /\ StoredDeals[j].url = d.url
                     /\ CheapestPrice(d) < CheapestPrice(StoredDeals[j])

\* C28: no repeat notification: when a completed cron run stored its list
\* and the next cron run scrapes the same list (unique urls, same cheapest
\* prices), the second run classifies every listing 'no_change' and makes
\* no webhook request; a listing is notified only when it is new relative
\* to, or cheaper than in, the stored run the run started from.
C28_NoRepeatNotification ==
    /\ [][C28_Link]_vars
    /\ []C28_SameListRun
    /\ []C28_NotifiedOnlyIfNewOrCheaper

\* A cron run with the webhook enabled that scraped the two listings the
\* run before it stored, and completed without a request.
C28_Witness ==
    /\ Exited
    /\ ~ONE_TIME_RUN
    /\ ENABLE_SLACK
    /\ FetchReturned
    /\ Len(deals) = 2
    /\ UrlsUnique(deals)
    /\ stateFileAtStart = saveState(deals)
    /\ \A i \in DOMAIN dealsWithStatus : dealsWithStatus[i].status = "no_change"
    /\ slackResult = "skipped"
    /\ webhookRequests = <<>>
    /\ exitCode = 0

\* A cron run that completed and whose state write succeeded.
CompletedAndStored ==
    Exited /\ ~ONE_TIME_RUN /\ exitCode = 0 /\ stateWrite = "ok"

UrlsOf(ds) == {ds[i].url : i \in DOMAIN ds}

\* After a completed cron run state.json holds the run's final list and
\* nothing else: no listing of the older baseline survives in it.
C29_Overwritten ==
    CompletedAndStored =>
        /\ StateFileHolds(deals)
        /\ UrlsOf(stateFile.value.deals) \subseteq UrlsOf(deals)

\* The next run loads exactly that list as its baseline.
C29_Link ==
    (CompletedAndStored /\ pc' = "started") =>
        /\ stateFileAtStart'.value.deals = deals
        /\ stateFile' = stateFile

\* A listing whose url the loaded baseline does not hold is 'new',
\* whatever its price, and is notified when the webhook is enabled.
C29_AbsentFromBaselineIsNew ==
    (~ONE_TIME_RUN /\ AfterStep({"compared", "posted", "outputSaved"})) =>
        \A i \in DOMAIN deals :
            deals[i].url \notin UrlsOf(StoredDeals) =>
                /\ dealsWithStatus[i].status = "new"
                /\ dealsWithStatus[i].prices = deals[i].prices
                /\ (ENABLE_SLACK /\ AfterStep({"posted", "outputSaved"})) =>
                      \E j \in DOMAIN Notified :
                          /\ Notified[j].url = deals[i].url
                          /\ Notified[j].status = "new"

\* After every completed cron run state.json holds the run's final list.
C29_PersistedAfterEveryRun ==
    (Exited /\ ~ONE_TIME_RUN /\ exitCode = 0) => StateFileHolds(deals)

\* C29 as stated: after every completed cron run the persisted deals are
\* exactly that run's final list, and a listing absent from the baseline
\* is 'new' and notified again.
C29_AsStated ==
    /\ []C29_PersistedAfterEveryRun
    /\ []C29_AbsentFromBaselineIsNew

\* C29, amended: the baseline is overwritten, never merged: after a
\* completed cron run whose state write succeeded the persisted deals are
\* exactly that run's final list, which is what
\* the next run compares against; a listing absent from run k's final list
\* is therefore absent from the baseline of run k+1 and, when it is scraped
\* again, is classified 'new' and (the webhook being enabled) notified
\* again, whatever its price.
C29_BaselineOverwritten ==
    /\ []C29_Overwritten
    /\ [][C29_Link]_vars
    /\ []C29_AbsentFromBaselineIsNew

\* Run k: the baseline holds u1, the final list holds u2 only, and the
\* state written holds u2 only.
C29_RunDropsListing ==
    /\ CompletedAndStored
    /\ "u1" \in UrlsOf(StoredDeals)
    /\ UrlsOf(deals) = {"u2"}
    /\ UrlsOf(stateFile.value.deals) = {"u2"}

\* Run k+1: the baseline is the u2-only list and u1 is scraped again: it is
\* 'new' and notified.
C29_Witness ==
    /\ CompletedAndStored
    /\ ENABLE_SLACK
    /\ UrlsOf(StoredDeals) = {"u2"}
    /\ Len(deals) = 2
    /\ deals[1].url = "u1"
    /\ deals[2].url = "u2"
    /\ dealsWithStatus[1].status = "new"
    /\ dealsWithStatus[2].status = "no_change"
    /\ Len(Notified) = 1
    /\ Notified[1].url = "u1"

\* The status the diff gives a listing with cheapest price cur whose url
\* the baseline holds with cheapest price old (0: no price).
StatusAgainst(cur, old) ==
    IF cur = 0 \/ old = 0 THEN "no_change"
    ELSE IF cur < old THEN "price_drop"
    ELSE IF cur > old THEN "price_increase"
    ELSE "no_change"

\* saveState has failed: the run exits 0 all the same, after postToSlack,
\* and state.json is as it was when the run started.
C30_FailedWriteIsSwallowed ==
    (Exited /\ stateWrite = "failed") =>
        /\ exitCode = 0
        /\ stateFile = stateFileAtStart
        /\ 0 < PositionOf("postToSlack")
        /\ PositionOf("postToSlack") < PositionOf("saveState")
        /\ (ENABLE_SLACK /\ noteworthyDeals # <<>>) => webhookRequests # <<>>

\* The next run starts from that same older baseline.
C30_Link ==
    (Exited /\ stateWrite = "failed" /\ pc' = "started") =>
        /\ stateFile' = stateFileAtStart
        /\ stateFileAtStart' = stateFileAtStart

\* What a run classifies and notifies is decided by the baseline it loaded
\* and the list it scraped alone: a run with the same baseline and the same
\* list sends the same 'new' and 'price_drop' notifications.
C30_DecidedByBaselineAndScrape ==
    (~ONE_TIME_RUN /\ AfterStep({"compared", "posted", "outputSaved"})
        /\ UrlsUnique(StoredDeals)) =>
        /\ previousState = loadPreviousState(stateFileAtStart)
        /\ Len(dealsWithStatus) = Len(deals)
        /\ \A i \in DOMAIN deals :
              /\ dealsWithStatus[i].url = deals[i].url
              /\ dealsWithStatus[i].status =
                    IF deals[i].url \notin UrlsOf(StoredDeals) THEN "new"
                    ELSE LET old == CHOOSE o \in {StoredDeals[j] : j \in DOMAIN StoredDeals} :
                                        o.url = deals[i].url
                         IN  StatusAgainst(CheapestPrice(deals[i]), CheapestPrice(old))
        /\ (ENABLE_SLACK /\ AfterStep({"posted", "outputSaved"})) =>
              /\ \A j \in DOMAIN Notified :
                    \E i \in DOMAIN dealsWithStatus : Notified[j] = dealsWithStatus[i]
              /\ \A i \in DOMAIN dealsWithStatus :
                    dealsWithStatus[i].status \in {"new", "price_drop"} =>
                        \E j \in DOMAIN Notified : Notified[j] = dealsWithStatus[i]

\* C30: a failed state-file write in saveState is swallowed: the run exits
\* zero after having dispatched its notifications and state.json keeps the
\* older baseline; the next run loads that older baseline, classifies
\* against it and so sends the same 'new' and 'price_drop' notifications
\* for the same scraped list.
C30_FailedStateWriteRepeatsNotifications ==
    /\ []C30_FailedWriteIsSwallowed
    /\ [][C30_Link]_vars
    /\ []C30_DecidedByBaselineAndScrape

\* A cron run that notified a price drop against a stored baseline and
\* whose state write then failed: exit code 0, state.json still the
\* baseline and not the run's list.
C30_Witness ==
    /\ Exited
    /\ ~ONE_TIME_RUN
    /\ stateWrite = "failed"
    /\ exitCode = 0
    /\ StoredDeals # <<>>
    /\ stateFile = stateFileAtStart
    /\ stateFile # saveState(deals)
    /\ Len(Notified) = 1
    /\ Notified[1].status = "price_drop"

====
